---- MODULE Spec2Model ----
(***************************************************************************)
(* A model of the trend and classification engine of trendpulse:           *)
(*   backend/etl/trend_calculator.py   (TrendCalculator)                   *)
(*   backend/sentiment_analyzer.py     (SentimentAnalyzer)                 *)
(*   backend/topic_classifier.py       (TopicClassifier)                   *)
(*   backend/trend_analyzer.py         (TrendAnalyzer)                     *)
(*                                                                         *)
(* Python floats are modelled as exact rationals <<num, den>> (den > 0,    *)
(* lowest terms).  Python dicts are modelled as sequences of [k, v]        *)
(* entries in insertion order.  A datetime is an integer count of ticks,   *)
(* TicksPerDay ticks to the calendar day.                                  *)
(***************************************************************************)
EXTENDS Integers, Sequences, FiniteSets, TLC

\* ------------------------------------------------------------------------
\* Bounds of the model
\* ------------------------------------------------------------------------
\* longest daily series drawn for the pure trend scorer
MaxDays == 7
\* largest per-day article count drawn for the pure trend scorer
MaxCount == 1

\* ------------------------------------------------------------------------
\* Exact rational arithmetic (the model of Python float arithmetic)
\* ------------------------------------------------------------------------
Abs(x) == IF x < 0 THEN -x ELSE x

RECURSIVE GCD(_, _)
GCD(a, b) == IF b = 0 THEN a ELSE GCD(b, a % b)

Rat(n, d) ==
    LET s == IF d < 0 THEN -1 ELSE 1
        g == GCD(Abs(n), Abs(d))
    IN  <<(s * n) \div g, (s * d) \div g>>

R(n) == <<n, 1>>
RAdd(a, b) == Rat(a[1] * b[2] + b[1] * a[2], a[2] * b[2])
RSub(a, b) == Rat(a[1] * b[2] - b[1] * a[2], a[2] * b[2])
RMul(a, b) == Rat(a[1] * b[1], a[2] * b[2])
RDiv(a, b) == Rat(a[1] * b[2], a[2] * b[1])
RLt(a, b) == a[1] * b[2] < b[1] * a[2]
RLe(a, b) == a[1] * b[2] <= b[1] * a[2]
RGt(a, b) == RLt(b, a)
RGe(a, b) == RLe(b, a)
RMin(a, b) == IF RLt(b, a) THEN b ELSE a
RMax(a, b) == IF RGt(b, a) THEN b ELSE a

\* the exact sum of s[lo..hi], added up by halves
RECURSIVE RSumRange(_, _, _)
RSumRange(s, lo, hi) ==
    IF hi < lo THEN R(0)
    ELSE IF lo = hi THEN s[lo]
    ELSE LET mid == (lo + hi) \div 2
         IN  RAdd(RSumRange(s, lo, mid), RSumRange(s, mid + 1, hi))
RSum(s) == RSumRange(s, 1, Len(s))

\* the floats that are not numbers of the real line: a zero denominator
NaN == <<0, 0>>
PosInf == <<1, 0>>
NegInf == <<-1, 0>>
math_isfinite(x) == x[2] # 0

\* np.mean of a non-empty list; a nan, or infinities of both signs, give nan,
\* and infinities of one sign give that infinity
np_mean(s) ==
    IF \A i \in 1..Len(s) : math_isfinite(s[i]) THEN RDiv(RSum(s), R(Len(s)))
    ELSE IF \E i \in 1..Len(s) : s[i] = NaN THEN NaN
    ELSE IF \A i \in 1..Len(s) : s[i] # NegInf THEN PosInf
    ELSE IF \A i \in 1..Len(s) : s[i] # PosInf THEN NegInf
    ELSE NaN

Min(a, b) == IF a < b THEN a ELSE b
Max(a, b) == IF a > b THEN a ELSE b

\* Python slice s[a:b] for 0 <= a, 0 <= b (0-based, half-open, clipped)
PySlice(s, a, b) == SubSeq(s, a + 1, Min(b, Len(s)))

\* ------------------------------------------------------------------------
\* Python dicts: sequences of entries [k |-> key, v |-> value]
\* ------------------------------------------------------------------------
DictKeys(d) == {d[i].k : i \in 1..Len(d)}
DictHas(d, key) == key \in DictKeys(d)
DictGet(d, key) == d[CHOOSE i \in 1..Len(d) : d[i].k = key].v
DictSet(d, key, val) ==
    IF DictHas(d, key)
    THEN [i \in 1..Len(d) |-> IF d[i].k = key THEN [k |-> key, v |-> val] ELSE d[i]]
    ELSE Append(d, [k |-> key, v |-> val])

\* sorted(S) for a finite set of integers
RECURSIVE sorted(_)
sorted(S) ==
    IF S = {} THEN <<>>
    ELSE LET m == CHOOSE x \in S : \A y \in S : x <= y
         IN  <<m>> \o sorted(S \ {m})

\* ------------------------------------------------------------------------
\* Datetimes and calendar days
\* ------------------------------------------------------------------------
TicksPerDay == 2
\* datetime.strftime('%Y-%m-%d'): the calendar day of a datetime
strftime(dt) == dt \div TicksPerDay
\* datetime.strptime(date_str, '%Y-%m-%d'): midnight of that day
strptime(date_str) == date_str * TicksPerDay

None == "None"
\* None in a float-valued slot (Article.sentiment_score, TopicTrend.sentiment_avg)
NoScore == <<>>
\* None returned where a dict is expected (Optional[Dict[str, Any]])
NoneResult == [none |-> TRUE]

\* ------------------------------------------------------------------------
\* TrendCalculator: the trend scorer
\* ------------------------------------------------------------------------
smoothing_window == 7

\* mutant: a trailing window in place of the centred one
_apply_smoothing_trailing(values) ==
    LET window == Min(smoothing_window, Len(values) \div 3)
    IN  IF window <= 1
        THEN [i \in 1..Len(values) |-> R(values[i])]
        ELSE [j \in 1..Len(values) |->
                LET w == PySlice(values, Max(0, j - 1 - window), j)
                IN  np_mean([k \in 1..Len(w) |-> R(w[k])])]

\* _apply_smoothing(values) with window = None
_apply_smoothing(values) ==
    LET window == Min(smoothing_window, Len(values) \div 3)
    IN  IF window <= 1
        THEN [i \in 1..Len(values) |-> R(values[i])]
        ELSE [j \in 1..Len(values) |->
                LET i == j - 1
                    start_idx == Max(0, i - window \div 2)
                    end_idx == Min(Len(values), i + window \div 2 + 1)
                    w == PySlice(values, start_idx, end_idx)
                IN  np_mean([k \in 1..Len(w) |-> R(w[k])])]

\* the two averages compared at index i >= 2 (0-based)
recent_avg(smoothed_counts, i) ==
    np_mean(PySlice(smoothed_counts, Max(0, i - 2), i + 1))
\* mutant: the older window runs through index max(1, i-3) inclusive
older_avg_inclusive(smoothed_counts, i) ==
    np_mean(PySlice(smoothed_counts, Max(0, i - 6), Max(1, i - 3) + 1))
older_avg(smoothed_counts, i) ==
    np_mean(PySlice(smoothed_counts, Max(0, i - 6), Max(1, i - 3)))

\* mutant: the score is not clamped into [0, 1]
trend_score_at_unclamped(smoothed_counts, i) ==
    LET recent == recent_avg(smoothed_counts, i)
        older == older_avg(smoothed_counts, i)
    IN  IF RGt(older, R(0))
        THEN RAdd(RDiv(RSub(recent, older), older), <<1, 2>>)
        ELSE <<1, 2>>

trend_score_at(smoothed_counts, i) ==
    LET recent == recent_avg(smoothed_counts, i)
        older == older_avg(smoothed_counts, i)
    IN  IF RGt(older, R(0))
        THEN RMin(RMax(RAdd(RDiv(RSub(recent, older), older), <<1, 2>>), R(0)), R(1))
        ELSE <<1, 2>>

direction_of(trend_score) ==
    IF RGt(trend_score, <<3, 5>>) THEN "rising"
    ELSE IF RLt(trend_score, <<2, 5>>) THEN "falling"
    ELSE "stable"

\* the series _calculate_trend_scores works on (lines 162-163)
series_dates(dc) == sorted(DictKeys(dc))
series_counts(dc) ==
    LET dates == series_dates(dc)
    IN  [i \in 1..Len(dates) |-> Len(DictGet(dc, dates[i]))]

\* the local smoothed_counts of _calculate_trend_scores (line 176); not computed
\* on the early return for fewer than 3 days
scorer_smoothed(dc) ==
    IF Len(series_counts(dc)) < 3 THEN <<>> ELSE _apply_smoothing(series_counts(dc))

\* the locals recent_avg and older_avg of each loop iteration (lines 185-186)
scorer_avgs(dc) ==
    LET smoothed_counts == scorer_smoothed(dc)
    IN  [j \in 1..Len(smoothed_counts) |->
            IF j - 1 >= 2
            THEN [recent |-> recent_avg(smoothed_counts, j - 1),
                  older |-> older_avg(smoothed_counts, j - 1)]
            ELSE None]

\* _calculate_trend_scores(daily_counts): dict date_str -> trend_info
_calculate_trend_scores(dc) ==
    LET dates == series_dates(dc)
        counts == series_counts(dc)
    IN  IF Len(counts) < 3
        THEN [j \in 1..Len(dates) |->
                [k |-> dates[j],
                 v |-> [article_count |-> Len(DictGet(dc, dates[j])),
                        trend_score |-> <<1, 2>>,
                        trend_direction |-> "stable"]]]
        ELSE LET smoothed_counts == _apply_smoothing(counts)
             IN  [j \in 1..Len(dates) |->
                    LET i == j - 1
                        trend_score == IF i >= 2
                                       THEN trend_score_at(smoothed_counts, i)
                                       ELSE <<1, 2>>
                        direction == IF i >= 2
                                     THEN direction_of(trend_score)
                                     ELSE "stable"
                    IN  [k |-> dates[j],
                         v |-> [article_count |-> Len(DictGet(dc, dates[j])),
                                trend_score |-> trend_score,
                                trend_direction |-> direction]]]

\* mutant: a day's list is overwritten by its latest article
RECURSIVE _group_articles_by_date_overwrite(_)
_group_articles_by_date_overwrite(arts) ==
    IF arts = <<>> THEN <<>>
    ELSE LET n == Len(arts)
             daily_groups == _group_articles_by_date_overwrite(SubSeq(arts, 1, n - 1))
             article == arts[n]
         IN  DictSet(daily_groups, strftime(article.published_date), <<article>>)

\* _group_articles_by_date(articles): dict date_str -> list of articles,
\* keys in order of first appearance
RECURSIVE _group_articles_by_date(_)
_group_articles_by_date(arts) ==
    IF arts = <<>> THEN <<>>
    ELSE LET n == Len(arts)
             daily_groups == _group_articles_by_date(SubSeq(arts, 1, n - 1))
             article == arts[n]
             date_str == strftime(article.published_date)
             old == IF DictHas(daily_groups, date_str)
                    THEN DictGet(daily_groups, date_str)
                    ELSE <<>>
         IN  DictSet(daily_groups, date_str, Append(old, article))

\* ------------------------------------------------------------------------
\* TrendCalculator.calculate_topic_country_trends on the tables
\* ------------------------------------------------------------------------
\* days_back default of calculate_topic_country_trends
default_days_back == 30

\* the lists daily_sentiment[date_str] of _calculate_sentiment_trends
RECURSIVE daily_sentiment(_)
daily_sentiment(arts) ==
    IF arts = <<>> THEN <<>>
    ELSE LET n == Len(arts)
             rest == daily_sentiment(SubSeq(arts, 1, n - 1))
             article == arts[n]
             date_str == strftime(article.published_date)
             old == IF DictHas(rest, date_str) THEN DictGet(rest, date_str) ELSE <<>>
         IN  IF article.sentiment_score # NoScore
             THEN DictSet(rest, date_str, Append(old, article.sentiment_score))
             ELSE rest

\* _calculate_sentiment_trends(articles): dict date_str -> mean sentiment
_calculate_sentiment_trends(arts) ==
    LET ds == daily_sentiment(arts)
    IN  [i \in 1..Len(ds) |-> [k |-> ds[i].k, v |-> np_mean(ds[i].v)]]

\* sentiment_data.get(date_str)
dict_get(d, key) == IF DictHas(d, key) THEN DictGet(d, key) ELSE NoScore

\* _calculate_engagement_score(trend_info)
_calculate_engagement_score(trend_info) ==
    LET normalized_count == RMin(Rat(trend_info.article_count, 10), R(1))
        engagement == RAdd(RMul(normalized_count, <<7, 10>>),
                           RMul(trend_info.trend_score, <<3, 10>>))
    IN  RMin(RMax(engagement, R(0)), R(1))

\* .order_by(Article.published_date): rows of equal date stay in table order
RECURSIVE order_by_published_date(_)
order_by_published_date(rows) ==
    IF rows = <<>> THEN <<>>
    ELSE LET n == Len(rows)
             rest == order_by_published_date(SubSeq(rows, 1, n - 1))
             x == rows[n]
             pos == Cardinality({i \in 1..Len(rest) :
                                    rest[i].published_date <= x.published_date})
         IN  SubSeq(rest, 1, pos) \o <<x>> \o SubSeq(rest, pos + 1, Len(rest))

\* the article query of calculate_topic_country_trends (lines 75-83)
query_articles(table, start_date, end_date) ==
    order_by_published_date(
        SelectSeq(table, LAMBDA a : /\ a.published_date >= start_date
                                   /\ a.published_date <= end_date))

\* func.date(column) and datetime.date(): the calendar day of a datetime
func_date(dt) == dt \div TicksPerDay

\* the lookup of lines 103-109: the first persistent row of that calendar
\* day, 0 for None; rows added in this session are not flushed (autoflush=False)
existing_trend(table, persistent, date_str) ==
    LET m == {i \in 1..persistent : func_date(table[i].date) = func_date(strptime(date_str))}
    IN  IF m = {} THEN 0 ELSE CHOOSE i \in m : \A j \in m : i <= j

\* lines 111-127 with db.add on every date: no lookup of an existing row
upsert_trend_add_always(table, persistent, date_str, trend_info, sentiment_avg) ==
    Append(table, [date |-> strptime(date_str),
                   article_count |-> trend_info.article_count,
                   trend_score |-> trend_info.trend_score,
                   sentiment_avg |-> sentiment_avg,
                   engagement_score |-> _calculate_engagement_score(trend_info)])

\* lines 101-127: update the existing row or add a new one
upsert_trend(table, persistent, date_str, trend_info, sentiment_avg) ==
    LET e == existing_trend(table, persistent, date_str)
    IN  IF e # 0
        THEN [table EXCEPT ![e].article_count = trend_info.article_count,
                           ![e].trend_score = trend_info.trend_score,
                           ![e].sentiment_avg = sentiment_avg]
        ELSE Append(table, [date |-> strptime(date_str),
                            article_count |-> trend_info.article_count,
                            trend_score |-> trend_info.trend_score,
                            sentiment_avg |-> sentiment_avg,
                            engagement_score |-> _calculate_engagement_score(trend_info)])

\* the loop of lines 100-134 over the first j items of trend_data
RECURSIVE save_trends(_, _, _, _, _)
save_trends(table, persistent, trend_data, sentiment_data, j) ==
    IF j = 0 THEN table
    ELSE upsert_trend(save_trends(table, persistent, trend_data, sentiment_data, j - 1),
                      persistent, trend_data[j].k, trend_data[j].v,
                      dict_get(sentiment_data, trend_data[j].k))

\* calculate_topic_country_trends(topic, country, days_back) at time now: the
\* table topic_trends after the commit, and the value returned
calculate_topic_country_trends(article_table, trend_table, now, days_back) ==
    LET end_date == now
        start_date == end_date - days_back * TicksPerDay
        arts == query_articles(article_table, start_date, end_date)
    IN  IF arts = <<>> THEN [topic_trends |-> trend_table, returned |-> 0]
        ELSE LET daily_counts == _group_articles_by_date(arts)
                 trend_data == _calculate_trend_scores(daily_counts)
                 sentiment_data == _calculate_sentiment_trends(arts)
             IN  [topic_trends |-> save_trends(trend_table, Len(trend_table), trend_data,
                                               sentiment_data, Len(trend_data)),
                  returned |-> Len(trend_data)]

\* ------------------------------------------------------------------------
\* TrendCalculator.generate_trend_predictions and cleanup_old_trends
\* ------------------------------------------------------------------------
\* days_ahead default of generate_trend_predictions
default_days_ahead == 7
\* .limit(30) of the history query
history_limit == 30

\* .order_by(TopicTrend.date): rows of equal date stay in table order
RECURSIVE order_by_date(_)
order_by_date(rows) ==
    IF rows = <<>> THEN <<>>
    ELSE LET n == Len(rows)
             rest == order_by_date(SubSeq(rows, 1, n - 1))
             x == rows[n]
             pos == Cardinality({i \in 1..Len(rest) : rest[i].date <= x.date})
         IN  SubSeq(rest, 1, pos) \o <<x>> \o SubSeq(rest, pos + 1, Len(rest))

\* the history query of generate_trend_predictions (lines 264-271)
query_historical_trends(table) == PySlice(order_by_date(table), 0, history_limit)

\* len(historical_trends) < 6: a history of six points is taken as enough
has_insufficient_data_below_six(historical_trends) == Len(historical_trends) < 6

\* len(historical_trends) < 7 (line 273)
has_insufficient_data(historical_trends) == Len(historical_trends) < 7

\* stats.linregress(x, y) over x = np.arange(len(y)): slope, intercept and
\* r_value ** 2 (r_value is 0 when y is constant)
linregress(y) ==
    LET n == Len(y)
        x == [i \in 1..n |-> R(i - 1)]
        xmean == np_mean(x)
        ymean == np_mean(y)
        ssxm == np_mean([i \in 1..n |-> RMul(RSub(x[i], xmean), RSub(x[i], xmean))])
        ssxym == np_mean([i \in 1..n |-> RMul(RSub(x[i], xmean), RSub(y[i], ymean))])
        ssym == np_mean([i \in 1..n |-> RMul(RSub(y[i], ymean), RSub(y[i], ymean))])
        slope == RDiv(ssxym, ssxm)
    IN  [slope |-> slope,
         intercept |-> RSub(ymean, RMul(slope, xmean)),
         r_squared |-> IF ssxm = R(0) \/ ssym = R(0) THEN R(0)
                       ELSE RDiv(RMul(ssxym, ssxym), RMul(ssxm, ssym))]

\* the raw extrapolation kept as it is: no bounding of predicted_score
bound_predicted_score_unbounded(predicted_score) == predicted_score

\* min(max(predicted_score, 0.0), 1.0) (line 289)
bound_predicted_score(predicted_score) == RMin(RMax(predicted_score, R(0)), R(1))

\* generate_trend_predictions(topic, country, days_ahead): the table
\* topic_predictions after the call, and the value returned
generate_trend_predictions(trend_table, prediction_table, days_ahead) ==
    LET historical_trends == query_historical_trends(trend_table)
    IN  IF has_insufficient_data(historical_trends)
        THEN [topic_predictions |-> prediction_table, returned |-> NoneResult]
        ELSE
        LET dates == [i \in 1..Len(historical_trends) |-> historical_trends[i].date]
            scores == [i \in 1..Len(historical_trends) |-> historical_trends[i].trend_score]
            reg == linregress(scores)
            future_x == Len(scores) + days_ahead
            predicted_score ==
                bound_predicted_score(RAdd(RMul(reg.slope, R(future_x)), reg.intercept))
            confidence == RMax(<<1, 10>>, reg.r_squared)
            prediction_date == dates[Len(dates)] + days_ahead * TicksPerDay
        IN  [topic_predictions |->
                Append(prediction_table,
                       [prediction_date |-> prediction_date,
                        predicted_trend_score |-> predicted_score,
                        confidence |-> confidence,
                        model_version |-> "linear_regression_v1"]),
             returned |->
                [prediction_date |-> prediction_date,
                 predicted_score |-> predicted_score,
                 confidence |-> confidence,
                 current_score |-> scores[Len(scores)],
                 trend_direction |-> IF RGt(reg.slope, R(0)) THEN "rising"
                                     ELSE IF RLt(reg.slope, R(0)) THEN "falling"
                                     ELSE "stable"]]

\* cleanup_old_trends at cutoff_date = now - days: both tables after the call,
\* and the value returned
cleanup_old_trends(trend_table, prediction_table, cutoff_date) ==
    LET old_trends_count ==
            Len(SelectSeq(trend_table, LAMBDA t : t.date < cutoff_date))
        kept_trends == SelectSeq(trend_table, LAMBDA t : ~(t.date < cutoff_date))
        kept_predictions ==
            SelectSeq(prediction_table, LAMBDA q : ~(q.prediction_date < cutoff_date))
    IN  IF old_trends_count = 0
        THEN [topic_trends |-> trend_table, topic_predictions |-> prediction_table,
              returned |-> 0]
        ELSE [topic_trends |-> kept_trends, topic_predictions |-> kept_predictions,
              returned |-> old_trends_count
                           + (Len(prediction_table) - Len(kept_predictions))]

\* ------------------------------------------------------------------------
\* Texts: leading whitespace followed by words separated by single blanks
\* ------------------------------------------------------------------------
Vocabulary == {"great", "bad", "not", "the", "election", "war"}
\* len(word)
WordLen(w) == Len(w)
\* a word followed by a full stop, as the f-string of analyze_article writes it
Dotted(w) == w \o "."
\* the word a token carries between its word boundaries
Stem(w) ==
    IF \E v \in Vocabulary : w = Dotted(v)
    THEN CHOOSE v \in Vocabulary : w = Dotted(v)
    ELSE w

Text(pad, words) == [pad |-> pad, words |-> words]
\* Python truthiness of a str: the empty string is falsy
IsEmptyText(text) == text.pad = 0 /\ text.words = <<>>
\* text.split()
split(text) == text.words
RECURSIVE CharsOf(_)
CharsOf(words) ==
    IF words = <<>> THEN 0
    ELSE WordLen(Head(words)) + (IF Len(words) > 1 THEN 1 ELSE 0) + CharsOf(Tail(words))
\* len(text.strip())
StripLen(text) == CharsOf(text.words)
\* sum over keywords of len(re.findall(r'\b' + keyword + r'\b', text_lower))
CountMatches(text, keywords) ==
    Cardinality({i \in 1..Len(text.words) : Stem(text.words[i]) \in keywords})

\* ------------------------------------------------------------------------
\* SentimentAnalyzer
\* ------------------------------------------------------------------------
\* the entries of sentiment_keywords and negation_words that the texts use
positive_keywords == {"great", "success", "breakthrough"}
negative_keywords == {"bad", "war"}
neutral_keywords == {}
negation_words == {"not"}

\* self.confidence_threshold of SentimentAnalyzer
sa_confidence_threshold == <<1, 2>>
\* the blend threshold of analyze_text
sa_blend_threshold == <<1, 5>>
\* analyze_text skips the model below this stripped length
sa_min_length == 10

\* np.tanh at the arguments 10 * k / w the rule-based scorer can pass for up
\* to 7 words and for one keyword in 99 or 100 words, rounded toward zero to
\* 4 decimals
np_tanh(x) ==
    LET a == <<Abs(x[1]), x[2]>>
        t == IF RGe(a, R(5)) THEN 9999
             ELSE CASE a = <<0, 1>> -> 0
                    [] a = <<1, 10>> -> 996
                    [] a = <<10, 99>> -> 1006
                    [] a = <<10, 7>> -> 8913
                    [] a = <<5, 3>> -> 9311
                    [] a = <<2, 1>> -> 9640
                    [] a = <<5, 2>> -> 9866
                    [] a = <<20, 7>> -> 9934
                    [] a = <<10, 3>> -> 9974
                    [] a = <<4, 1>> -> 9993
                    [] a = <<30, 7>> -> 9996
    IN  Rat(IF x[1] < 0 THEN -t ELSE t, 10000)

sentiment_label_of(score) ==
    IF RGt(score, <<1, 10>>) THEN "positive"
    ELSE IF RLt(score, <<-1, 10>>) THEN "negative"
    ELSE "neutral"

\* analyze_with_rules without lines 274-276: the counts are scored as found,
\* however many negation words the text has
analyze_with_rules_ignoring_negations(text) ==
    IF IsEmptyText(text)
    THEN [sentiment_score |-> R(0), sentiment_label |-> "neutral",
          confidence |-> <<1, 10>>, method |-> "rule-based"]
    ELSE
    LET total_words == Len(split(text))
        pos0 == CountMatches(text, positive_keywords)
        neg0 == CountMatches(text, negative_keywords)
        neutral_count == CountMatches(text, neutral_keywords)
        negation_count == CountMatches(text, negation_words)
        positive_count == pos0
        negative_count == neg0
        total_sentiment_words == positive_count + negative_count
        positive_ratio == Rat(positive_count, Max(total_words, 1))
        negative_ratio == Rat(negative_count, Max(total_words, 1))
        sentiment_score == IF total_sentiment_words = 0 THEN R(0)
                           ELSE np_tanh(RMul(RSub(positive_ratio, negative_ratio), R(10)))
        sentiment_label == IF total_sentiment_words = 0 THEN "neutral"
                           ELSE sentiment_label_of(sentiment_score)
        confidence == IF total_sentiment_words = 0 THEN <<1, 10>>
                      ELSE RMin(RDiv(R(total_sentiment_words),
                                     RMax(Rat(total_words, 10), R(1))), R(1))
    IN  [sentiment_score |-> sentiment_score,
         sentiment_label |-> sentiment_label,
         confidence |-> confidence,
         method |-> "rule-based",
         details |-> [positive_count |-> positive_count,
                      negative_count |-> negative_count,
                      neutral_count |-> neutral_count,
                      negation_count |-> negation_count,
                      total_words |-> total_words]]

\* analyze_with_rules(text)
analyze_with_rules(text) ==
    IF IsEmptyText(text)
    THEN [sentiment_score |-> R(0), sentiment_label |-> "neutral",
          confidence |-> <<1, 10>>, method |-> "rule-based"]
    ELSE
    LET total_words == Len(split(text))
        pos0 == CountMatches(text, positive_keywords)
        neg0 == CountMatches(text, negative_keywords)
        neutral_count == CountMatches(text, neutral_keywords)
        negation_count == CountMatches(text, negation_words)
        positive_count == IF negation_count > 2 THEN neg0 ELSE pos0
        negative_count == IF negation_count > 2 THEN pos0 ELSE neg0
        total_sentiment_words == positive_count + negative_count
        positive_ratio == Rat(positive_count, Max(total_words, 1))
        negative_ratio == Rat(negative_count, Max(total_words, 1))
        sentiment_score == IF total_sentiment_words = 0 THEN R(0)
                           ELSE np_tanh(RMul(RSub(positive_ratio, negative_ratio), R(10)))
        sentiment_label == IF total_sentiment_words = 0 THEN "neutral"
                           ELSE sentiment_label_of(sentiment_score)
        confidence == IF total_sentiment_words = 0 THEN <<1, 10>>
                      ELSE RMin(RDiv(R(total_sentiment_words),
                                     RMax(Rat(total_words, 10), R(1))), R(1))
    IN  [sentiment_score |-> sentiment_score,
         sentiment_label |-> sentiment_label,
         confidence |-> confidence,
         method |-> "rule-based",
         details |-> [positive_count |-> positive_count,
                      negative_count |-> negative_count,
                      neutral_count |-> neutral_count,
                      negation_count |-> negation_count,
                      total_words |-> total_words]]

\* what self.model.predict yields for a text: [score, confidence], or
\* "error" when preprocessing or inference fails
PredictionFailed == [error |-> TRUE]

\* analyze_with_model without its guard on self.model / self.tokenizer: an
\* absent model answers neutral with full confidence
analyze_with_model_unguarded(an, text, prediction) ==
    IF ~an.model \/ ~an.tokenizer
    THEN [sentiment_score |-> R(0), sentiment_label |-> "neutral",
          confidence |-> R(1), method |-> "neural"]
    ELSE IF prediction = PredictionFailed THEN NoneResult
    ELSE IF RLt(prediction.confidence, sa_confidence_threshold) THEN NoneResult
    ELSE [sentiment_score |-> prediction.sentiment_score,
          sentiment_label |-> sentiment_label_of(prediction.sentiment_score),
          confidence |-> prediction.confidence,
          method |-> "neural"]

\* analyze_with_model(text); an is the analyzer object, prediction what the
\* model would output for the text
analyze_with_model(an, text, prediction) ==
    IF ~an.model \/ ~an.tokenizer THEN NoneResult
    ELSE IF prediction = PredictionFailed THEN NoneResult
    ELSE IF RLt(prediction.confidence, sa_confidence_threshold) THEN NoneResult
    ELSE [sentiment_score |-> prediction.sentiment_score,
          sentiment_label |-> sentiment_label_of(prediction.sentiment_score),
          confidence |-> prediction.confidence,
          method |-> "neural"]

\* the blend of analyze_text with the two confidences added up, neither
\* halved nor capped
blend_unhalved(neural_result, rule_result) ==
    LET neural_weight == neural_result.confidence
        rule_weight == rule_result.confidence
        total_weight == RAdd(neural_weight, rule_weight)
        blended_score == RDiv(RAdd(RMul(neural_result.sentiment_score, neural_weight),
                                   RMul(rule_result.sentiment_score, rule_weight)),
                              total_weight)
    IN  [sentiment_score |-> blended_score,
         sentiment_label |-> sentiment_label_of(blended_score),
         confidence |-> total_weight,
         method |-> "blended"]

\* the blend of analyze_text (lines 332-357)
blend(neural_result, rule_result) ==
    LET neural_weight == neural_result.confidence
        rule_weight == rule_result.confidence
        total_weight == RAdd(neural_weight, rule_weight)
        blended_score == RDiv(RAdd(RMul(neural_result.sentiment_score, neural_weight),
                                   RMul(rule_result.sentiment_score, rule_weight)),
                              total_weight)
    IN  [sentiment_score |-> blended_score,
         sentiment_label |-> sentiment_label_of(blended_score),
         confidence |-> RMin(RDiv(total_weight, R(2)), R(1)),
         method |-> "blended"]

\* analyze_text without the check of line 320: every text goes to the model
analyze_text_unchecked_length(an, text, prediction) ==
    LET neural_result == analyze_with_model(an, text, prediction)
        rule_result == analyze_with_rules(text)
    IN  IF neural_result # NoneResult
           /\ RGt(neural_result.confidence, sa_confidence_threshold)
        THEN neural_result
        ELSE IF neural_result # NoneResult
                /\ RGt(neural_result.confidence, sa_blend_threshold)
                /\ RGt(RAdd(neural_result.confidence, rule_result.confidence), R(0))
        THEN blend(neural_result, rule_result)
        ELSE rule_result

\* analyze_text(text)
analyze_text(an, text, prediction) ==
    IF IsEmptyText(text) \/ StripLen(text) < sa_min_length
    THEN analyze_with_rules(text)
    ELSE
    LET neural_result == analyze_with_model(an, text, prediction)
        rule_result == analyze_with_rules(text)
    IN  IF neural_result # NoneResult
           /\ RGt(neural_result.confidence, sa_confidence_threshold)
        THEN neural_result
        ELSE IF neural_result # NoneResult
                /\ RGt(neural_result.confidence, sa_blend_threshold)
                /\ RGt(RAdd(neural_result.confidence, rule_result.confidence), R(0))
        THEN blend(neural_result, rule_result)
        ELSE rule_result

\* f"{title}. {title}. {content}" (line 374)
combined_text(title, content) ==
    LET dotted == IF title.words = <<>> THEN <<".">>
                  ELSE SubSeq(title.words, 1, Len(title.words) - 1)
                          \o <<Dotted(title.words[Len(title.words)])>>
    IN  Text(title.pad, dotted \o dotted \o content.words)

\* the text analyze_article hands to analyze_text (lines 372-378)
article_text(title, content) ==
    IF ~IsEmptyText(title) /\ ~IsEmptyText(content) THEN combined_text(title, content)
    ELSE IF ~IsEmptyText(title) THEN title
    ELSE content

\* analyze_article with the rule-based default for an article without text
analyze_article_default_rules(an, title, content, prediction) ==
    analyze_text(an, article_text(title, content), prediction)

\* analyze_article(title, content)
analyze_article(an, title, content, prediction) ==
    IF IsEmptyText(title) /\ IsEmptyText(content)
    THEN [sentiment_score |-> R(0), sentiment_label |-> "neutral",
          confidence |-> R(0), method |-> "insufficient_data"]
    ELSE analyze_text(an, article_text(title, content), prediction)

\* ------------------------------------------------------------------------
\* TopicClassifier
\* ------------------------------------------------------------------------
\* the keys of topic_keywords, in the order of the dict literal
topic_names ==
    <<"Politics & Elections", "Technology & Innovation", "Climate & Environment",
      "Health & Medicine", "Business & Economy", "Sports & Entertainment",
      "War & International", "Society & Culture", "Science & Research",
      "Crime & Justice">>
\* the keywords of a topic that are in Vocabulary
topic_keywords(topic) ==
    CASE topic = "Politics & Elections" -> {"election"}
      [] topic = "War & International" -> {"war"}
      [] OTHER -> {}

\* self.confidence_threshold of TopicClassifier
tc_confidence_threshold == <<3, 10>>
\* the threshold for secondary topics of classify_with_model
tc_secondary_threshold == <<1, 5>>
\* the lower threshold of classify_text
tc_minimal_threshold == <<1, 10>>

default_topic_result ==
    [primary_topic |-> "Society & Culture", confidence |-> <<1, 10>>,
     secondary_topics |-> <<>>, method |-> "rule-based"]

\* sorted(items, key=score, reverse=True): stable insertion into descending order
RECURSIVE sorted_by_score_desc(_)
sorted_by_score_desc(items) ==
    IF items = <<>> THEN <<>>
    ELSE LET n == Len(items)
             rest == sorted_by_score_desc(SubSeq(items, 1, n - 1))
             x == items[n]
             \* x goes after every element whose score is >= its own
             pos == Cardinality({i \in 1..Len(rest) : RGe(rest[i].score, x.score)})
         IN  SubSeq(rest, 1, pos) \o <<x>> \o SubSeq(rest, pos + 1, Len(rest))

RECURSIVE SelectSeq2(_, _)
SelectSeq2(sq, keep) ==
    IF sq = <<>> THEN <<>>
    ELSE (IF Head(sq) \in keep THEN <<Head(sq)>> ELSE <<>>) \o SelectSeq2(Tail(sq), keep)

\* classify_with_rules(text)
classify_with_rules(text) ==
    IF IsEmptyText(text) THEN default_topic_result
    ELSE
    LET text_words == Len(split(text))
        topic_scores ==
            [t \in 1..Len(topic_names) |->
                [topic |-> topic_names[t],
                 score |-> IF text_words > 0
                           THEN Rat(CountMatches(text, topic_keywords(topic_names[t])),
                                    text_words)
                           ELSE R(0)]]
        sorted_topics == sorted_by_score_desc(topic_scores)
    IN  IF sorted_topics = <<>> \/ sorted_topics[1].score = R(0)
        THEN default_topic_result
        ELSE LET primary_score == sorted_topics[1].score
                 candidates == SubSeq(sorted_topics, 2, 3)
                 secondary == {c \in 1..Len(candidates) :
                                  /\ RGt(candidates[c].score, R(0))
                                  /\ RGt(candidates[c].score, RMul(primary_score, <<1, 2>>))}
             IN  [primary_topic |-> sorted_topics[1].topic,
                  confidence |-> RMin(RMul(primary_score, R(10)), R(1)),
                  secondary_topics |->
                      SelectSeq2([c \in 1..Len(candidates) |->
                                     IF c \in secondary THEN candidates[c].topic ELSE ""],
                                 {candidates[c].topic : c \in secondary}),
                  method |-> "rule-based"]

\* classify_with_model(text); cl is the classifier object, prediction.top the
\* three largest entries [topic, p] of the model's probabilities, descending
classify_with_model(cl, text, prediction) ==
    IF ~cl.model \/ ~cl.tokenizer THEN NoneResult
    ELSE IF prediction = PredictionFailed THEN NoneResult
    ELSE IF RLt(prediction.top[1].p, tc_confidence_threshold) THEN NoneResult
    ELSE IF ~cl.label_encoder THEN NoneResult
    ELSE LET others == SubSeq(prediction.top, 2, Min(3, Len(prediction.top)))
             keep == {others[i].topic : i \in {j \in 1..Len(others) :
                                                  RGt(others[j].p, tc_secondary_threshold)}}
         IN  [primary_topic |-> prediction.top[1].topic,
              primary_confidence |-> prediction.top[1].p,
              secondary_topics |-> SelectSeq2([i \in 1..Len(others) |-> others[i].topic], keep),
              confidence |-> prediction.top[1].p,
              method |-> "neural"]

\* classify_text(text)
classify_text(cl, text, prediction) ==
    IF IsEmptyText(text) THEN classify_with_rules(text)
    ELSE
    LET neural_result == classify_with_model(cl, text, prediction)
        rule_result == classify_with_rules(text)
    IN  IF neural_result # NoneResult
           /\ RGt(neural_result.confidence, tc_confidence_threshold)
        THEN neural_result
        ELSE IF neural_result # NoneResult
                /\ RGt(neural_result.confidence, tc_minimal_threshold)
                /\ RGt(neural_result.confidence, rule_result.confidence)
        THEN neural_result
        ELSE rule_result

\* ------------------------------------------------------------------------
\* TrendAnalyzer
\* ------------------------------------------------------------------------
\* an Article row with the columns the analysis reads
NewsArticle(pd, s, title, content) ==
    [published_date |-> pd, sentiment_score |-> s, title |-> title, content |-> content]

\* what the loop of lines 134-144 appends for one article; sa is the
\* module-level sentiment_analyzer, prediction what its model gives
article_sentiment(sa, article, prediction) ==
    IF article.sentiment_score # NoScore THEN article.sentiment_score
    ELSE analyze_article(sa, article.title, article.content, prediction).sentiment_score

\* the day's entry with articles lacking a score left out of the average
daily_metric_scored_only(sa, date, day_articles, prediction) ==
    LET scored == SelectSeq(day_articles, LAMBDA a : a.sentiment_score # NoScore)
        article_sentiments == [i \in 1..Len(scored) |-> scored[i].sentiment_score]
    IN  [date |-> date,
         article_count |-> Len(day_articles),
         avg_sentiment |-> IF article_sentiments # <<>> THEN np_mean(article_sentiments)
                           ELSE R(0)]

\* the entry of daily_metrics for one date (lines 125-158): the count and the
\* average sentiment of the day
daily_metric(sa, date, day_articles, prediction) ==
    LET article_sentiments ==
            [i \in 1..Len(day_articles) |->
                article_sentiment(sa, day_articles[i], prediction)]
    IN  [date |-> date,
         article_count |-> Len(day_articles),
         avg_sentiment |-> IF article_sentiments # <<>> THEN np_mean(article_sentiments)
                           ELSE R(0)]

\* the loop of lines 125-160 over sorted(date_articles.keys())
compute_daily_metrics(sa, date_articles, prediction) ==
    LET dates == sorted(DictKeys(date_articles))
    IN  [i \in 1..Len(dates) |->
            daily_metric(sa, dates[i], DictGet(date_articles, dates[i]), prediction)]

\* np.polyfit(x, y, 1)[0] over x = np.arange(len(y)), len(y) >= 2
polyfit_slope(y) ==
    LET n == Len(y)
        xmean == Rat(n - 1, 2)
        ymean == np_mean(y)
        sxy == RSum([i \in 1..n |-> RMul(RSub(R(i - 1), xmean), RSub(y[i], ymean))])
        sxx == RSum([i \in 1..n |-> RMul(RSub(R(i - 1), xmean), RSub(R(i - 1), xmean))])
    IN  RDiv(sxy, sxx)

\* direction of a sentiment change (lines 265-270)
sentiment_direction(sentiment_change) ==
    IF RGt(sentiment_change, <<1, 20>>) THEN "improving"
    ELSE IF RLt(sentiment_change, <<-1, 20>>) THEN "deteriorating"
    ELSE "stable"

\* _calculate_sentiment_trend with np.mean(sentiment_scores[-3:]) taken for
\* every length
_calculate_sentiment_trend_mean_of_last(sentiment_scores) ==
    IF Len(sentiment_scores) < 2
    THEN [direction |-> "insufficient_data", change |-> R(0)]
    ELSE
    LET n == Len(sentiment_scores)
        recent_sentiment == np_mean(PySlice(sentiment_scores, Max(0, n - 3), n))
        earlier_sentiment == IF n > 3 THEN np_mean(PySlice(sentiment_scores, 0, n - 3))
                             ELSE sentiment_scores[1]
        sentiment_change == RSub(recent_sentiment, earlier_sentiment)
    IN  [direction |-> sentiment_direction(sentiment_change),
         change |-> sentiment_change,
         current_sentiment |-> recent_sentiment,
         sentiment_slope |-> polyfit_slope(sentiment_scores)]

\* _calculate_sentiment_trend(sentiment_scores); 'volatility' (np.std, a
\* square root) is not part of the modelled result
_calculate_sentiment_trend(sentiment_scores) ==
    IF Len(sentiment_scores) < 2
    THEN [direction |-> "insufficient_data", change |-> R(0)]
    ELSE
    LET n == Len(sentiment_scores)
        recent_sentiment == IF n >= 3 THEN np_mean(PySlice(sentiment_scores, n - 3, n))
                            ELSE sentiment_scores[n]
        earlier_sentiment == IF n > 3 THEN np_mean(PySlice(sentiment_scores, 0, n - 3))
                             ELSE sentiment_scores[1]
        sentiment_change == RSub(recent_sentiment, earlier_sentiment)
    IN  [direction |-> sentiment_direction(sentiment_change),
         change |-> sentiment_change,
         current_sentiment |-> recent_sentiment,
         sentiment_slope |-> polyfit_slope(sentiment_scores)]

\* the row of one day in the model's input: the modelled columns of
\* feature_vector (lines 293-300)
feature_vector(metric) == <<R(metric.article_count), metric.avg_sentiment>>

\* the rows the model is given
sequence_length == 7

\* while len(features) < 7: features.insert(0, features[0]) (lines 304-305)
RECURSIVE pad_features(_)
pad_features(rows) ==
    IF Len(rows) < sequence_length /\ rows # <<>>
    THEN pad_features(<<rows[1]>> \o rows)
    ELSE rows

\* the list features of _predict_trend_with_model when the model is called
\* (lines 290-305)
build_features(metrics) ==
    LET last == PySlice(metrics, Max(0, Len(metrics) - sequence_length), Len(metrics))
    IN  pad_features([i \in 1..Len(last) |-> feature_vector(last[i])])

\* the guard of line 286
skips_model(ta, metrics) == ~ta.trend_model \/ Len(metrics) < sequence_length

\* _predict_trend_with_model(daily_metrics); prediction is what
\* trend_model.predict gives for the window, or PredictionFailed when it raises
_predict_trend_with_model(ta, metrics, prediction) ==
    IF skips_model(ta, metrics) THEN NoneResult
    ELSE IF prediction = PredictionFailed THEN NoneResult
    ELSE LET p == prediction.value
         IN  [predicted_direction |-> IF RGt(p, <<1, 10>>) THEN "increasing"
                                      ELSE IF RLt(p, <<-1, 10>>) THEN "decreasing"
                                      ELSE "stable",
              predicted_change |-> p,
              confidence |-> RMin(<<Abs(p[1]), p[2]>>, R(1)),
              method |-> "tensorflow_lstm"]

\* sum(m['article_count'] for m in daily_metrics)
RECURSIVE sum_article_counts(_)
sum_article_counts(metrics) ==
    IF metrics = <<>> THEN 0
    ELSE Head(metrics).article_count + sum_article_counts(Tail(metrics))

\* _analyze_single_topic_trend(topic, date_articles, days): the analysis
\* period, the sentiment trend, the prediction, the last seven daily metrics
\* and the overall sentiment of the result
_analyze_single_topic_trend(ta, dated, prediction) ==
    LET dates == sorted(DictKeys(dated))
    IN  IF Len(dates) < 3 THEN NoneResult
        ELSE
        LET metrics == compute_daily_metrics(ta.sentiment_analyzer, dated,
                                             prediction.sentiment)
            scores == [i \in 1..Len(metrics) |-> metrics[i].avg_sentiment]
        IN  [analysis_period |-> [start_date |-> dates[1],
                                  end_date |-> dates[Len(dates)],
                                  days_analyzed |-> Len(dates)],
             sentiment_trend |-> _calculate_sentiment_trend(scores),
             prediction |-> _predict_trend_with_model(ta, metrics, prediction.trend),
             daily_metrics |-> PySlice(metrics, Max(0, Len(metrics) - 7), Len(metrics)),
             summary |-> [total_articles |-> sum_article_counts(metrics),
                          overall_sentiment |-> np_mean(scores)]]

\* ------------------------------------------------------------------------
\* State
\* ------------------------------------------------------------------------
VARIABLES
    call,            \* the function the caller entered
    pc,              \* the next step of the call under way
    article_list,    \* the list of articles handed to the daily grouping
    daily_counts,    \* the grouping: dict date_str -> list of articles
    smoothed_counts, \* the scorer's local: the smoothed count series
    avgs,            \* the scorer's locals recent_avg, older_avg per index
    trend_data,      \* the scorer's result: dict date_str -> trend_info
    analyzer,        \* the SentimentAnalyzer / TopicClassifier object (what is loaded)
    text,            \* the text handed to analyze_text / classify_text
    prediction,      \* what model.predict gives for the text, were it run
    neural_result,   \* the local neural_result of analyze_text / classify_text
    result,          \* the value the call returned
    articles,        \* table articles
    topic_trends,    \* table topic_trends
    topic_predictions, \* table topic_predictions
    op,              \* the last call on the store and what it returned
    date_articles,   \* TrendAnalyzer: dict date -> list of articles of a topic
    sentiment_scores, \* TrendAnalyzer: the per-day average sentiment series
    daily_metrics,   \* TrendAnalyzer: the list of per-day metric dicts
    features,        \* TrendAnalyzer: the rows built for the sequence model
    topic_results,   \* TrendAnalyzer: dict topic -> per-topic result (trend_results)
    overall_analysis, \* TrendAnalyzer: what _calculate_overall_trends returned
    batch_size,      \* process_articles_sentiment: its parameter
    total_articles,  \* process_articles_sentiment: query.count() at the start
    offset,          \* process_articles_sentiment: offset of the next batch
    processed_count, \* process_articles_sentiment: articles analysed
    failed_count,    \* process_articles_sentiment: articles set to 0.0
    backfill_pc,     \* process_articles_sentiment: where the call stands
    unscored_at_start, \* the rows that had no sentiment_score when the call began
    processed_articles, \* _save_articles_to_db: its parameter
    article_index,   \* _save_articles_to_db: articles of the for loop done
    saved_count,     \* _save_articles_to_db: its counter
    session_new,     \* the session: article URLs added and not yet flushed
    tx_articles,     \* the open transaction: article URLs inserted, not committed
    tx_sources,      \* the open transaction: source names inserted, not committed
    db_articles,     \* committed rows of table articles, by URL
    db_sources,      \* committed rows of table news_sources, by name
    save_pc,         \* _save_articles_to_db: where the call stands
    db_articles_at_call, \* the committed article rows when the call began
    running,         \* BackgroundScheduler.running
    thread,          \* BackgroundScheduler.thread: the latest thread created, 0 for None
    schedule_jobs,   \* schedule.jobs: the names of the jobs registered
    thread_pc,       \* where each loop thread created so far stands
    last_call,       \* the latest call on the scheduler that has returned
    stop_calls       \* the stop() calls made

scoreVars == <<article_list, daily_counts, smoothed_counts, avgs, trend_data>>
clfVars == <<analyzer, text, prediction, neural_result, result>>
storeVars == <<articles, topic_trends, topic_predictions, op>>
analyzeVars == <<date_articles, sentiment_scores, daily_metrics, features>>
overallVars == <<topic_results, overall_analysis>>
backfillVars == <<batch_size, total_articles, offset, processed_count, failed_count,
                  backfill_pc, unscored_at_start>>
saveVars == <<processed_articles, article_index, saved_count, session_new,
              tx_articles, tx_sources, db_articles, db_sources, save_pc,
              db_articles_at_call>>
schedulerVars == <<running, thread, schedule_jobs, thread_pc, last_call, stop_calls>>
extVars == <<overallVars, backfillVars, saveVars, schedulerVars>>
vars == <<call, pc, scoreVars, clfVars, storeVars, analyzeVars, extVars>>

\* the variables of the classifiers while another component runs
ClfIdle ==
    /\ analyzer = None /\ text = None /\ prediction = None
    /\ neural_result = None /\ result = None
\* the tables while no session is open
StoreIdle ==
    /\ articles = <<>> /\ topic_trends = <<>> /\ topic_predictions = <<>>
    /\ op = None
\* the locals of the TrendAnalyzer while another component runs
AnalyzeIdle ==
    /\ date_articles = <<>> /\ sentiment_scores = <<>>
    /\ daily_metrics = <<>> /\ features = <<>>
\* the variables of the aggregate report while another component runs
OverallIdle == topic_results = <<>> /\ overall_analysis = None
\* the locals of process_articles_sentiment while it is not running
BackfillIdle ==
    /\ batch_size = 0 /\ total_articles = 0 /\ offset = 0 /\ processed_count = 0
    /\ failed_count = 0 /\ backfill_pc = None /\ unscored_at_start = {}
\* the session and the locals of _save_articles_to_db while it is not running
SaveIdle ==
    /\ processed_articles = <<>> /\ article_index = 0 /\ saved_count = 0
    /\ session_new = <<>> /\ tx_articles = <<>> /\ tx_sources = {}
    /\ db_articles = <<>> /\ db_sources = {} /\ save_pc = None
    /\ db_articles_at_call = <<>>
\* the scheduler object while no specification of it runs
SchedulerIdle ==
    /\ running = FALSE /\ thread = 0 /\ schedule_jobs = <<>> /\ thread_pc = <<>>
    /\ last_call = None /\ stop_calls = 0
ExtIdle == OverallIdle /\ BackfillIdle /\ SaveIdle /\ SchedulerIdle
\* the scorer's variables while another component runs
ScoreIdle ==
    /\ article_list = <<>> /\ daily_counts = <<>> /\ smoothed_counts = <<>>
    /\ avgs = <<>> /\ trend_data = <<>>

\* ------------------------------------------------------------------------
\* The trend scorer as a function of its input (calls of the two helpers)
\* ------------------------------------------------------------------------
\* latest tick an article of a drawn list is published at
MaxTick == 5
\* longest article list drawn for the grouping
MaxListLen == 3

Article(pd, s) == [published_date |-> pd, sentiment_score |-> s]

\* a dict with one day per element of a count series, day i holding s[i] articles
DictOfCounts(s) ==
    [i \in 1..Len(s) |->
        [k |-> i, v |-> [j \in 1..s[i] |-> Article(strptime(i), NoScore)]]]

RisingScenario == <<2, 2, 3, 8, 9, 10, 11>>
Scenarios == {RisingScenario, <<11, 10, 9, 8, 3, 2, 2>>, <<5>>}
CountSeries == UNION {[1..n -> 0..MaxCount] : n \in 0..MaxDays} \cup Scenarios
ArticleLists == UNION {[1..n -> {Article(t, NoScore) : t \in 0..MaxTick}] : n \in 0..MaxListLen}

\* the caller's input: a list of articles still to be grouped, or a dict of
\* daily article lists handed to the scorer directly
InitScore ==
    /\ ExtIdle
    /\ AnalyzeIdle
    /\ ClfIdle
    /\ StoreIdle
    /\ trend_data = <<>>
    /\ smoothed_counts = <<>>
    /\ avgs = <<>>
    /\ \/ /\ call = "calculate_topic_country_trends"
          /\ pc = "group"
          /\ article_list \in ArticleLists
          /\ daily_counts = <<>>
       \/ /\ call = "_calculate_trend_scores"
          /\ pc = "score"
          /\ article_list = <<>>
          /\ daily_counts \in {DictOfCounts(s) : s \in CountSeries}

\* calculate_topic_country_trends line 90: daily_counts = _group_articles_by_date(articles)
GroupArticles ==
    /\ pc = "group"
    /\ daily_counts' = _group_articles_by_date(article_list)
    /\ pc' = "score"
    /\ UNCHANGED <<extVars, analyzeVars, call, article_list, smoothed_counts, avgs, trend_data, clfVars, storeVars>>

\* calculate_topic_country_trends line 93: trend_data = _calculate_trend_scores(daily_counts)
ScoreSeries ==
    /\ pc = "score"
    /\ smoothed_counts' = scorer_smoothed(daily_counts)
    /\ avgs' = scorer_avgs(daily_counts)
    /\ trend_data' = _calculate_trend_scores(daily_counts)
    /\ pc' = "done"
    /\ UNCHANGED <<extVars, analyzeVars, call, article_list, daily_counts, clfVars, storeVars>>

NextScore == GroupArticles \/ ScoreSeries

SpecScore == InitScore /\ [][NextScore]_vars

\* ------------------------------------------------------------------------
\* The classifiers as functions of the text and of what the model predicts
\* ------------------------------------------------------------------------
\* longest text drawn, in words
MaxWords == 2

\* an object whose model loaded, and one that fell back (model and tokenizer
\* are reset together by _create_sentiment_model / _create_simple_model)
Loaded == [model |-> TRUE, tokenizer |-> TRUE, label_encoder |-> TRUE]
Absent == [model |-> FALSE, tokenizer |-> FALSE, label_encoder |-> FALSE]
\* the prediction of a model that is never run
NoPrediction == [unused |-> TRUE]
\* the local neural_result of a call that returned before running the model
NotInvoked == [not_invoked |-> TRUE]
\* titles and contents of the articles handed to analyze_article
Titles == {Text(0, <<>>), Text(0, <<"great">>), Text(0, <<"bad", "election">>)}
Contents == {Text(0, <<>>), Text(0, <<"war">>), Text(0, <<"the", "great", "election">>)}

Texts == {Text(pad, w) : pad \in {0, 1},
                         w \in UNION {[1..n -> Vocabulary] : n \in 0..MaxWords}}
\* texts handed to analyze_with_rules alone: every mix of a positive keyword,
\* a negative keyword and a negation word up to MaxRuleWords words, the
\* scenario text, and one positive keyword among 98 and 99 filler words
MaxRuleWords == 5
Diluted(n) == Text(0, [i \in 1..n |-> IF i = 1 THEN "great" ELSE "the"])
RuleTexts ==
    {Text(0, w) : w \in [1..MaxRuleWords -> {"great", "bad", "not"}]}
        \cup {Text(0, <<"great", "success", "and", "breakthrough">>),
              Diluted(99), Diluted(100)}
\* outputs of the two heads of the sentiment model: tanh score, sigmoid confidence
PrimaryScores == {<<-4, 5>>, <<0, 1>>, <<1, 10>>, <<4, 5>>}
PrimaryConfs == {<<1, 10>>, <<1, 5>>, <<3, 10>>, <<1, 2>>, <<3, 5>>, <<9, 10>>}
SentimentPredictions ==
    {[sentiment_score |-> sc, confidence |-> c] : sc \in PrimaryScores, c \in PrimaryConfs}
        \cup {PredictionFailed}
\* the three largest softmax probabilities of the topic model, in descending order
TopicConfs == {<<3, 20>>, <<1, 4>>, <<3, 10>>, <<2, 5>>, <<3, 5>>}
TopTriples ==
    {[top |-> <<[topic |-> t, p |-> p1], [topic |-> "Crime & Justice", p |-> p2],
                [topic |-> "Science & Research", p |-> <<1, 20>>]>>] :
        t \in {"Health & Medicine", "War & International"},
        p1 \in TopicConfs,
        p2 \in {<<1, 10>>, <<1, 4>>}}
TopicPredictions ==
    {pr \in TopTriples : RLe(pr.top[2].p, pr.top[1].p)} \cup {PredictionFailed}

InitClassify ==
    /\ ExtIdle
    /\ AnalyzeIdle
    /\ ScoreIdle
    /\ StoreIdle
    /\ pc = "call"
    /\ neural_result = None
    /\ result = None
    /\ analyzer \in {Loaded, Absent}
    /\ call \in {"analyze_text", "classify_text", "analyze_article", "analyze_with_rules"}
    /\ text \in IF call = "analyze_article"
                THEN {[title |-> t, content |-> c] : t \in Titles, c \in Contents}
                ELSE IF call = "analyze_with_rules" THEN Texts \cup RuleTexts
                ELSE Texts
    /\ prediction \in
          IF analyzer = Absent \/ call = "analyze_with_rules" THEN {NoPrediction}
          ELSE IF call = "classify_text" THEN TopicPredictions
          ELSE SentimentPredictions

\* sentiment_analyzer.analyze_text(text)
AnalyzeText ==
    /\ pc = "call"
    /\ call = "analyze_text"
    /\ neural_result' = IF IsEmptyText(text) \/ StripLen(text) < sa_min_length
                        THEN NotInvoked
                        ELSE analyze_with_model(analyzer, text, prediction)
    /\ result' = analyze_text(analyzer, text, prediction)
    /\ pc' = "done"
    /\ UNCHANGED <<extVars, analyzeVars, call, analyzer, text, prediction, scoreVars, storeVars>>

\* topic_classifier.classify_text(text)
ClassifyText ==
    /\ pc = "call"
    /\ call = "classify_text"
    /\ neural_result' = IF IsEmptyText(text) THEN NotInvoked
                        ELSE classify_with_model(analyzer, text, prediction)
    /\ result' = classify_text(analyzer, text, prediction)
    /\ pc' = "done"
    /\ UNCHANGED <<extVars, analyzeVars, call, analyzer, text, prediction, scoreVars, storeVars>>

\* sentiment_analyzer.analyze_article(title, content)
AnalyzeArticle ==
    /\ pc = "call"
    /\ call = "analyze_article"
    /\ LET combined == article_text(text.title, text.content)
       IN  neural_result' = IF IsEmptyText(combined) \/ StripLen(combined) < sa_min_length
                            THEN NotInvoked
                            ELSE analyze_with_model(analyzer, combined, prediction)
    /\ result' = analyze_article(analyzer, text.title, text.content, prediction)
    /\ pc' = "done"
    /\ UNCHANGED <<extVars, analyzeVars, call, analyzer, text, prediction, scoreVars, storeVars>>

\* sentiment_analyzer.analyze_with_rules(text), called directly
AnalyzeWithRules ==
    /\ pc = "call"
    /\ call = "analyze_with_rules"
    /\ neural_result' = NotInvoked
    /\ result' = analyze_with_rules(text)
    /\ pc' = "done"
    /\ UNCHANGED <<extVars, analyzeVars, call, analyzer, text, prediction, scoreVars, storeVars>>

NextClassify == AnalyzeText \/ ClassifyText \/ AnalyzeArticle \/ AnalyzeWithRules

SpecClassify == InitClassify /\ [][NextClassify]_vars

\* ------------------------------------------------------------------------
\* The tables of one (topic, country) under article arrival and trend runs
\* ------------------------------------------------------------------------
\* most articles arriving after the first trend run could have seen the table
MaxArrivals == 1
\* the sentiment_score of an arriving article (the pipeline scores it before saving)
ArrivalScores == {<<1, 2>>}
DaysBackChoices == {1, default_days_back}
\* what the ETL has stored before the first run: nothing, or four articles on
\* three consecutive days
ThreeDays ==
    <<Article(0, NoScore), Article(3, <<1, 2>>), Article(4, <<-1, 2>>), Article(5, NoScore)>>
\* or two articles of one day, one of them with a sentiment_score that is
\* not a finite number
NonFiniteScores == {NaN, PosInf}
NonFiniteDay == {<<Article(3, <<1, 2>>), Article(3, x)>> : x \in NonFiniteScores}
StoredArticles == {<<>>, ThreeDays} \cup NonFiniteDay

\* no trend stored yet; op.now is the clock reading of the latest run
InitStore ==
    /\ ExtIdle
    /\ AnalyzeIdle
    /\ ScoreIdle
    /\ ClfIdle
    /\ call = None
    /\ pc = None
    /\ articles \in StoredArticles
    /\ topic_trends = <<>>
    /\ topic_predictions = <<>>
    /\ op = [name |-> "init", now |-> 0, days_back |-> default_days_back,
             returned |-> 0, rerun |-> FALSE, arrivals |-> 0]

\* the ETL stores an article of the topic and country
AddArticle ==
    /\ op.arrivals < MaxArrivals
    /\ \E pd \in 0..MaxTick, sc \in ArrivalScores :
          articles' = Append(articles, Article(pd, sc))
    /\ op' = [op EXCEPT !.name = "add_article", !.rerun = FALSE,
                        !.arrivals = op.arrivals + 1]
    /\ UNCHANGED <<extVars, analyzeVars, call, pc, scoreVars, clfVars, topic_trends, topic_predictions>>

\* one run of calculate_topic_country_trends, from SessionLocal() to db.close()
CalculateTopicCountryTrends ==
    \E now \in op.now..MaxTick, days_back \in DaysBackChoices :
       LET run == calculate_topic_country_trends(articles, topic_trends, now, days_back)
       IN  /\ topic_trends' = run.topic_trends
           /\ op' = [name |-> "calculate_topic_country_trends", now |-> now,
                     days_back |-> days_back, returned |-> run.returned,
                     rerun |-> /\ op.name = "calculate_topic_country_trends"
                               /\ op.now = now
                               /\ op.days_back = days_back,
                     arrivals |-> op.arrivals]
           /\ UNCHANGED <<extVars, analyzeVars, call, pc, scoreVars, clfVars, articles, topic_predictions>>

NextStore == AddArticle \/ CalculateTopicCountryTrends

SpecStore == InitStore /\ [][NextStore]_vars

\* ------------------------------------------------------------------------
\* The forecasts of one (topic, country) over a stored trend history
\* ------------------------------------------------------------------------
\* longest trend history stored before the first forecast
MaxHistory == 7
\* most rows of table topic_predictions
MaxForecasts == 2
HorizonChoices == {1, default_days_ahead}
\* cutoff dates of a cleanup: after the first stored day, and after every
\* stored day and every one-day forecast
CutoffChoices == {strptime(1), strptime(MaxHistory + 1)}

\* a stored trend row for each score of a series, on consecutive days
TrendRows(series) ==
    [i \in 1..Len(series) |->
        [date |-> strptime(i - 1), article_count |-> 1, trend_score |-> series[i],
         sentiment_avg |-> NoScore, engagement_score |-> NoScore]]
\* a perfectly linear rise, and the scores of the rising count series
LinearRamp == [i \in 1..7 |-> Rat(i - 1, 6)]
\* six days at 0.5 and a seventh slightly above
NearlyFlat == <<<<1, 2>>, <<1, 2>>, <<1, 2>>, <<1, 2>>, <<1, 2>>, <<1, 2>>, <<4, 7>>>>
\* more stored days than the history query returns: flat at 0.5 up to the
\* limit of the query, then two days at 1
LongHistory ==
    [i \in 1..(history_limit + 2) |-> IF i <= history_limit THEN <<1, 2>> ELSE R(1)]
HistoryScenarios ==
    {LinearRamp, <<R(1), R(1), <<1, 2>>, <<1, 2>>, R(0), R(0), R(0)>>,
     <<<<1, 2>>, <<1, 2>>, <<17, 18>>, R(1), R(1), R(1), R(1)>>, NearlyFlat,
     LongHistory}
Histories ==
    UNION {[1..n -> {R(0), R(1)}] : n \in 0..MaxHistory} \cup HistoryScenarios

InitForecast ==
    /\ ExtIdle
    /\ AnalyzeIdle
    /\ ScoreIdle
    /\ ClfIdle
    /\ call = None
    /\ pc = None
    /\ articles = <<>>
    /\ topic_trends \in {TrendRows(h) : h \in Histories}
    /\ topic_predictions = <<>>
    /\ op = [name |-> "init", returned |-> NoneResult, days_ahead |-> 0, deleted |-> 0]

\* one call of generate_trend_predictions, from SessionLocal() to db.close();
\* calls that would store a forecast stop once the table holds MaxForecasts rows
GenerateTrendPredictions ==
    /\ \/ Len(topic_predictions) < MaxForecasts
       \/ has_insufficient_data(query_historical_trends(topic_trends))
    /\ \E days_ahead \in HorizonChoices :
          LET run == generate_trend_predictions(topic_trends, topic_predictions, days_ahead)
          IN  /\ topic_predictions' = run.topic_predictions
              /\ op' = [name |-> "generate_trend_predictions", returned |-> run.returned,
                        days_ahead |-> days_ahead, deleted |-> 0]
    /\ UNCHANGED <<extVars, analyzeVars, call, pc, scoreVars, clfVars, articles, topic_trends>>

\* one call of cleanup_old_trends
CleanupOldTrends ==
    /\ \E cutoff_date \in CutoffChoices :
          LET run == cleanup_old_trends(topic_trends, topic_predictions, cutoff_date)
          IN  /\ topic_trends' = run.topic_trends
              /\ topic_predictions' = run.topic_predictions
              /\ op' = [name |-> "cleanup_old_trends", returned |-> NoneResult,
                        days_ahead |-> 0, deleted |-> run.returned]
    /\ UNCHANGED <<extVars, analyzeVars, call, pc, scoreVars, clfVars, articles>>

NextForecast == GenerateTrendPredictions \/ CleanupOldTrends

SpecForecast == InitForecast /\ [][NextForecast]_vars

\* ------------------------------------------------------------------------
\* The analysis of one topic: calls of the TrendAnalyzer and, over the same
\* articles, of the two TrendCalculator entry points
\* ------------------------------------------------------------------------
\* most days of a topic drawn for an analysis
MaxAnalyzedDays == 7
\* longest sentiment series drawn for _calculate_sentiment_trend
MaxSeriesLen == 5

\* a day with one scored article, and a day with a scored article followed by
\* one that was never scored
ScoredDay(day) ==
    <<NewsArticle(strptime(day), <<1, 2>>, Text(0, <<"great">>), Text(0, <<>>))>>
MixedDay(day) ==
    <<NewsArticle(strptime(day), <<1, 2>>, Text(0, <<"great">>), Text(0, <<>>)),
      NewsArticle(strptime(day) + 1, NoScore, Text(0, <<"the", "election">>), Text(0, <<>>))>>
\* a day whose only article has no score and neither title nor content, and
\* a day whose only article has no score and a title
BlankDay(day) ==
    <<NewsArticle(strptime(day), NoScore, Text(0, <<>>), Text(0, <<>>))>>
UnscoredDay(day) ==
    <<NewsArticle(strptime(day), NoScore, Text(0, <<"the", "election">>), Text(0, <<>>))>>

\* date_articles as analyze_topic_trends builds it, for n consecutive days
\* given by a function from the day to its articles
DatedArticles(n, day_articles) ==
    [i \in 1..n |-> [k |-> i - 1, v |-> day_articles[i]]]
DateArticleScenarios ==
    {DatedArticles(3, <<ScoredDay(0), MixedDay(1), UnscoredDay(2)>>),
     DatedArticles(4, <<BlankDay(0), ScoredDay(1), UnscoredDay(2), MixedDay(3)>>),
     \* more days than the model's window holds
     DatedArticles(8, <<MixedDay(0), ScoredDay(1), ScoredDay(2), MixedDay(3),
                        ScoredDay(4), UnscoredDay(5), ScoredDay(6), MixedDay(7)>>),
     \* keys inserted out of date order
     <<[k |-> 2, v |-> ScoredDay(2)], [k |-> 0, v |-> MixedDay(0)],
       [k |-> 1, v |-> BlankDay(1)]>>}
DateArticles ==
    UNION {{DatedArticles(n, [i \in 1..n |-> IF kind[i] THEN MixedDay(i - 1)
                                                        ELSE ScoredDay(i - 1)]) :
               kind \in [1..n -> BOOLEAN]} : n \in 0..MaxAnalyzedDays}
        \cup DateArticleScenarios

\* the articles of a date_articles dict as rows of table articles
RECURSIVE AllArticles(_)
AllArticles(dated) ==
    IF dated = <<>> THEN <<>> ELSE Head(dated).v \o AllArticles(Tail(dated))

SeriesValues == {<<-1, 10>>, R(0), <<1, 20>>, <<1, 10>>}
SentimentSeries == UNION {[1..n -> SeriesValues] : n \in 0..MaxSeriesLen}

\* a TrendAnalyzer whose LSTM was built, and one whose _initialize_trend_model
\* failed (line 57); either with or without a loaded sentiment model
TrendAnalyzers ==
    {[trend_model |-> m, sentiment_analyzer |-> sa] : m \in BOOLEAN, sa \in {Loaded, Absent}}
\* outputs of the Dense(1, linear) head of the LSTM
TrendOutputs == {R(-2), R(0), <<1, 10>>, <<1, 2>>}
TrendPredictions == {[value |-> p] : p \in TrendOutputs} \cup {PredictionFailed}
\* what the sentiment model gives for an article that has no score
ArticlePredictions == {[sentiment_score |-> <<-4, 5>>, confidence |-> <<9, 10>>]}
ModelOutputs(ta) ==
    {[trend |-> t, sentiment |-> sp] :
        t \in IF ta.trend_model THEN TrendPredictions ELSE {NoPrediction},
        sp \in IF ta.sentiment_analyzer = Loaded THEN ArticlePredictions ELSE {NoPrediction}}

\* the time of the calculator's run: after the last day that can hold articles
AnalysisNow == strptime(MaxAnalyzedDays + 2)

AnalyzeCalls ==
    {"_analyze_single_topic_trend", "_calculate_sentiment_trend",
     "_predict_trend_with_model", "calculate_topic_country_trends",
     "generate_trend_predictions"}

InitAnalyze ==
    /\ ExtIdle
    /\ ScoreIdle
    /\ text = None /\ neural_result = None
    /\ result = NoneResult
    /\ op = None
    /\ pc = "call"
    /\ features = <<>>
    /\ topic_predictions = <<>>
    /\ call \in AnalyzeCalls
    /\ analyzer \in
          IF call \in {"_analyze_single_topic_trend", "_predict_trend_with_model"}
          THEN TrendAnalyzers
          ELSE {[trend_model |-> FALSE, sentiment_analyzer |-> Absent]}
    /\ prediction \in ModelOutputs(analyzer)
    /\ date_articles \in
          IF call \in {"_analyze_single_topic_trend", "_predict_trend_with_model",
                       "calculate_topic_country_trends"}
          THEN DateArticles ELSE {<<>>}
    /\ articles = AllArticles(date_articles)
    /\ sentiment_scores \in
          IF call = "_calculate_sentiment_trend" THEN SentimentSeries ELSE {<<>>}
    /\ daily_metrics =
          IF call = "_predict_trend_with_model"
          THEN compute_daily_metrics(analyzer.sentiment_analyzer, date_articles,
                                     prediction.sentiment)
          ELSE <<>>
    /\ topic_trends \in
          IF call = "generate_trend_predictions"
          THEN {TrendRows(h) : h \in HistoryScenarios \cup {<<>>, <<R(1), R(0)>>}}
          ELSE {<<>>}

\* trend_analyzer._analyze_single_topic_trend(topic, date_articles, days)
AnalyzeSingleTopicTrend ==
    /\ pc = "call"
    /\ call = "_analyze_single_topic_trend"
    /\ LET metrics == compute_daily_metrics(analyzer.sentiment_analyzer, date_articles,
                                            prediction.sentiment)
           returns_early == Cardinality(DictKeys(date_articles)) < 3
       IN  /\ daily_metrics' = IF returns_early THEN <<>> ELSE metrics
           /\ sentiment_scores' =
                 IF returns_early THEN <<>>
                 ELSE [i \in 1..Len(metrics) |-> metrics[i].avg_sentiment]
           /\ features' = IF returns_early \/ skips_model(analyzer, metrics) THEN <<>>
                          ELSE build_features(metrics)
    /\ result' = _analyze_single_topic_trend(analyzer, date_articles, prediction)
    /\ pc' = "done"
    /\ UNCHANGED <<extVars, call, analyzer, text, prediction, neural_result, date_articles,
                   scoreVars, storeVars>>

\* trend_analyzer._calculate_sentiment_trend(sentiment_scores)
CalculateSentimentTrend ==
    /\ pc = "call"
    /\ call = "_calculate_sentiment_trend"
    /\ result' = _calculate_sentiment_trend(sentiment_scores)
    /\ pc' = "done"
    /\ UNCHANGED <<extVars, call, analyzer, text, prediction, neural_result, analyzeVars,
                   scoreVars, storeVars>>

\* trend_analyzer._predict_trend_with_model(daily_metrics)
PredictTrendWithModel ==
    /\ pc = "call"
    /\ call = "_predict_trend_with_model"
    /\ features' = IF skips_model(analyzer, daily_metrics) THEN <<>>
                   ELSE build_features(daily_metrics)
    /\ result' = _predict_trend_with_model(analyzer, daily_metrics, prediction.trend)
    /\ pc' = "done"
    /\ UNCHANGED <<extVars, call, analyzer, text, prediction, neural_result, date_articles,
                   sentiment_scores, daily_metrics, scoreVars, storeVars>>

\* trend_calculator.calculate_topic_country_trends over the articles of the
\* topic, with the default days_back
CalculateTrendsOfTopic ==
    /\ pc = "call"
    /\ call = "calculate_topic_country_trends"
    /\ LET run == calculate_topic_country_trends(articles, topic_trends, AnalysisNow,
                                                 default_days_back)
       IN  /\ topic_trends' = run.topic_trends
           /\ result' = [returned |-> run.returned]
    /\ pc' = "done"
    /\ UNCHANGED <<extVars, call, analyzer, text, prediction, neural_result, analyzeVars,
                   scoreVars, articles, topic_predictions, op>>

\* trend_calculator.generate_trend_predictions over the stored trend history,
\* with the default days_ahead
ForecastByRegression ==
    /\ pc = "call"
    /\ call = "generate_trend_predictions"
    /\ LET run == generate_trend_predictions(topic_trends, topic_predictions,
                                             default_days_ahead)
       IN  /\ topic_predictions' = run.topic_predictions
           /\ result' = run.returned
    /\ pc' = "done"
    /\ UNCHANGED <<extVars, call, analyzer, text, prediction, neural_result, analyzeVars,
                   scoreVars, articles, topic_trends, op>>

NextAnalyze ==
    \/ AnalyzeSingleTopicTrend
    \/ CalculateSentimentTrend
    \/ PredictTrendWithModel
    \/ CalculateTrendsOfTopic
    \/ ForecastByRegression

SpecAnalyze == InitAnalyze /\ [][NextAnalyze]_vars

\* ------------------------------------------------------------------------
\* TrendAnalyzer._calculate_overall_trends over the per-topic results
\* ------------------------------------------------------------------------
\* a Python float where a reader subscripts it
PyFloat(x) == [float |-> x]
\* obj[key] raises for a float, and for a dict without the key
can_getitem(obj, key) == key \in DOMAIN obj
\* {} as returned for no results and from the except branch
EmptyDict == [empty |-> TRUE]

\* the fields of the result dict of _analyze_single_topic_trend (lines
\* 175-193) that the aggregate report reads
topic_result(article_total, trend_direction, overall_sentiment, volume_trend) ==
    [volume_trend |-> volume_trend,
     summary |-> [total_articles |-> article_total,
                  trend_direction |-> trend_direction,
                  overall_sentiment |-> overall_sentiment]]

\* sorted(items, key=..., reverse=True) over [key, item] pairs: descending,
\* items of equal key in their original order
RECURSIVE sorted_reverse(_)
sorted_reverse(pairs) ==
    IF pairs = <<>> THEN <<>>
    ELSE LET n == Len(pairs)
             rest == sorted_reverse(SubSeq(pairs, 1, n - 1))
             x == pairs[n]
             pos == Cardinality({i \in 1..Len(rest) : RGe(rest[i].key, x.key)})
         IN  SubSeq(rest, 1, pos) \o <<x>> \o SubSeq(rest, pos + 1, Len(rest))

RECURSIVE sum_total_articles(_)
sum_total_articles(results) ==
    IF results = <<>> THEN 0
    ELSE Head(results).v.summary.total_articles + sum_total_articles(Tail(results))

\* dict(Counter(directions))
direction_counts(results) ==
    [d \in {results[i].v.summary.trend_direction : i \in 1..Len(results)} |->
        Cardinality({i \in 1..Len(results) : results[i].v.summary.trend_direction = d})]

\* _calculate_overall_trends(topic_results): the report, or {} when there is
\* no result or a statement of the try block raises
_calculate_overall_trends(results) ==
    IF results = <<>> THEN EmptyDict
    ELSE
    LET n == Len(results)
        article_total == sum_total_articles(results)
        sentiments == [i \in 1..n |-> results[i].v.summary.overall_sentiment]
        avg_sentiment == np_mean(sentiments)
        most_active ==
            PySlice(sorted_reverse([i \in 1..n |->
                        [key |-> R(results[i].v.summary.total_articles),
                         item |-> results[i]]]), 0, 5)
        \* x[1]['volume_trend']['volume_trend'] of the sort key (line 359)
        key_raises ==
            \E i \in 1..n : ~can_getitem(results[i].v.volume_trend, "volume_trend")
        most_trending ==
            PySlice(sorted_reverse([i \in 1..n |->
                        [key |-> results[i].v.volume_trend.volume_trend,
                         item |-> results[i]]]), 0, 5)
    IN  IF key_raises THEN EmptyDict
        ELSE [total_articles_analyzed |-> article_total,
              average_sentiment |-> avg_sentiment,
              sentiment_distribution |->
                 [positive_topics |->
                     Cardinality({i \in 1..n : RGt(sentiments[i], <<1, 10>>)}),
                  neutral_topics |->
                     Cardinality({i \in 1..n : /\ RLe(<<-1, 10>>, sentiments[i])
                                               /\ RLe(sentiments[i], <<1, 10>>)}),
                  negative_topics |->
                     Cardinality({i \in 1..n : RLt(sentiments[i], <<-1, 10>>)})],
              trend_directions |-> direction_counts(results),
              most_active_topics |->
                 [j \in 1..Len(most_active) |->
                     [topic |-> most_active[j].item.k,
                      articles |-> most_active[j].item.v.summary.total_articles]],
              most_trending_topics |->
                 [j \in 1..Len(most_trending) |->
                     [topic |-> most_trending[j].item.k,
                      trend |-> most_trending[j].item.v.volume_trend.volume_trend]]]

\* most topics with a result
MaxTopics == 6
\* what a topic's analysis can report: article total, direction, overall
\* sentiment and volume trend
TopicProfiles ==
    {<<9, "decreasing", <<-1, 2>>, <<-3, 4>>>>,
     <<6, "increasing", <<1, 10>>, <<1, 4>>>>,
     <<6, "stable", <<1, 2>>, R(0)>>}
\* trend_results of the topics analysed, in insertion order; the volume trend
\* is the float _analyze_single_topic_trend stores (line 182), or the dict
\* _calculate_overall_trends subscripts (line 359)
trend_results(profiles, as_dict) ==
    [i \in 1..Len(profiles) |->
        [k |-> topic_names[i],
         v |-> topic_result(profiles[i][1], profiles[i][2], profiles[i][3],
                            IF as_dict THEN [volume_trend |-> profiles[i][4]]
                            ELSE PyFloat(profiles[i][4]))]]
TopicResults ==
    {trend_results(f, d) :
        f \in UNION {[1..m -> TopicProfiles] : m \in 0..MaxTopics}, d \in BOOLEAN}

InitOverall ==
    /\ ScoreIdle
    /\ ClfIdle
    /\ StoreIdle
    /\ AnalyzeIdle
    /\ call = None
    /\ pc = None
    /\ BackfillIdle
    /\ SaveIdle
    /\ SchedulerIdle
    /\ topic_results \in TopicResults
    /\ overall_analysis = NotInvoked

\* the call self._calculate_overall_trends(trend_results) of analyze_topic_trends
CalculateOverallTrends ==
    /\ overall_analysis = NotInvoked
    /\ overall_analysis' = _calculate_overall_trends(topic_results)
    /\ UNCHANGED <<call, pc, scoreVars, clfVars, storeVars, analyzeVars, topic_results,
                   backfillVars, saveVars, schedulerVars>>

NextOverall == CalculateOverallTrends

SpecOverall == InitOverall /\ [][NextOverall]_vars


\* ------------------------------------------------------------------------
\* process_sentiment.process_articles_sentiment over table articles
\* ------------------------------------------------------------------------
\* db.query(Article).filter(Article.sentiment_score.is_(None)), evaluated
\* when it is run: the positions of the unscored rows, in table order
unscored_rows(table) ==
    SelectSeq([i \in 1..Len(table) |-> i],
              LAMBDA i : table[i].sentiment_score = NoScore)
\* query.offset(offset).limit(batch_size).all()
fetch_batch(table, off, size) == PySlice(unscored_rows(table), off, off + size)
\* the score analyze_article gives an article of the backlog
analysed_score == <<1, 2>>
\* the for loop over a batch and db.commit(): analysed[j] tells whether the
\* j-th article got the score of a truthy sentiment_result, or 0.0 from the
\* else branch or the except branch
process_batch(table, batch, analysed) ==
    [i \in 1..Len(table) |->
        IF \E j \in 1..Len(batch) : batch[j] = i
        THEN LET j == CHOOSE j \in 1..Len(batch) : batch[j] = i
             IN  [table[i] EXCEPT !.sentiment_score =
                     IF analysed[j] THEN analysed_score ELSE R(0)]
        ELSE table[i]]

\* most rows of table articles, and the largest batch_size
MaxBacklog == 4
MaxBatchSize == 3
\* tables whose rows are scored or not, row i published on day i
BacklogTables ==
    UNION {{[i \in 1..n |-> Article(strptime(i), f[i])] :
              f \in [1..n -> {NoScore, <<-1, 2>>}]} : n \in 0..MaxBacklog}

InitBackfill ==
    /\ ScoreIdle
    /\ ClfIdle
    /\ AnalyzeIdle
    /\ OverallIdle
    /\ SaveIdle
    /\ SchedulerIdle
    /\ call = None
    /\ pc = None
    /\ articles \in BacklogTables
    /\ topic_trends = <<>> /\ topic_predictions = <<>> /\ op = None
    /\ batch_size \in 1..MaxBatchSize
    /\ total_articles = 0 /\ offset = 0
    /\ processed_count = 0 /\ failed_count = 0
    /\ backfill_pc = "start"
    /\ unscored_at_start = {}

\* lines 27-47: the session, the query, query.count(), the early return of 0
\* and the initialisation of the counters
CountUnscored ==
    /\ backfill_pc = "start"
    /\ total_articles' = Len(unscored_rows(articles))
    /\ unscored_at_start' = {unscored_rows(articles)[j] :
                                j \in 1..Len(unscored_rows(articles))}
    /\ backfill_pc' = IF total_articles' = 0 THEN "returned" ELSE "loop"
    /\ UNCHANGED <<call, pc, scoreVars, clfVars, storeVars, analyzeVars, overallVars, saveVars,
                   schedulerVars,
                   batch_size, offset, processed_count, failed_count>>

\* one pass of the while loop that finds a batch: lines 50-100
ProcessBatch ==
    /\ backfill_pc = "loop"
    /\ offset < total_articles
    /\ LET batch == fetch_batch(articles, offset, batch_size)
       IN  /\ batch # <<>>
           /\ \E analysed \in [1..Len(batch) -> BOOLEAN] :
                 /\ articles' = process_batch(articles, batch, analysed)
                 /\ processed_count' =
                       processed_count + Cardinality({j \in 1..Len(batch) : analysed[j]})
                 /\ failed_count' =
                       failed_count + Cardinality({j \in 1..Len(batch) : ~analysed[j]})
    /\ offset' = offset + batch_size
    /\ UNCHANGED <<call, pc, scoreVars, clfVars, analyzeVars, overallVars, saveVars,
                   schedulerVars,
                   topic_trends, topic_predictions, op,
                   batch_size, total_articles, backfill_pc, unscored_at_start>>

\* the loop ends, by its condition or by the break on an empty batch, and the
\* call returns processed_count: lines 50-54 and 102-107
ReturnProcessed ==
    /\ backfill_pc = "loop"
    /\ \/ ~(offset < total_articles)
       \/ fetch_batch(articles, offset, batch_size) = <<>>
    /\ backfill_pc' = "returned"
    /\ UNCHANGED <<call, pc, scoreVars, clfVars, storeVars, analyzeVars, overallVars, saveVars,
                   schedulerVars,
                   batch_size, total_articles, offset, processed_count, failed_count,
                   unscored_at_start>>

NextBackfill == CountUnscored \/ ProcessBatch \/ ReturnProcessed

SpecBackfill == InitBackfill /\ [][NextBackfill]_vars
\* the script runs its single thread until it returns
SpecBackfillRun == SpecBackfill /\ WF_vars(NextBackfill)

\* ------------------------------------------------------------------------
\* NewsAggregator._save_articles_to_db over a session with autoflush off
\* ------------------------------------------------------------------------
\* `saved_count % 10 == 0`: a commit after every tenth article added
commit_interval == 10
\* the set of the elements of a sequence
Elements(sq) == {sq[i] : i \in 1..Len(sq)}
\* whether flushing the pending articles violates unique=True of Article.url
\* (models.py line 30): a pending URL is in the table, or pending twice
flush_raises(table, inserted, pending) ==
    \E i \in 1..Len(pending) :
        \/ pending[i] \in Elements(table) \cup Elements(inserted)
        \/ \E j \in 1..(i - 1) : pending[j] = pending[i]

\* longest batch drawn in full, and the length of the scenario batches
MaxBatchLen == 3
ArticleUrls == {1, 2}
SourceNames == {"Reuters", "BBC"}
\* a processed article: its URL, its source, and whether building and adding
\* the Article goes through (ok) or raises (a missing key, a failed query)
ArticleData(url, source_name, ok) == [url |-> url, source_name |-> source_name, ok |-> ok]
\* eleven articles of one source with distinct URLs, the last one raising or
\* not; and ten of which the last repeats the URL of the first
LongBatches ==
    {[i \in 1..(commit_interval + 1) |->
         ArticleData(i, "Reuters", i <= commit_interval \/ ok)] : ok \in BOOLEAN}
      \cup {[i \in 1..commit_interval |->
                ArticleData(IF i = commit_interval THEN 1 ELSE i, "Reuters", TRUE)]}
Batches ==
    UNION {[1..n -> {ArticleData(u, sn, ok) :
                        u \in ArticleUrls, sn \in SourceNames, ok \in BOOLEAN}] :
              n \in 0..MaxBatchLen}
        \cup LongBatches

\* db = SessionLocal(); saved_count = 0 (lines 122-123)
InitSave ==
    /\ ScoreIdle
    /\ ClfIdle
    /\ StoreIdle
    /\ AnalyzeIdle
    /\ OverallIdle
    /\ BackfillIdle
    /\ SchedulerIdle
    /\ call = None
    /\ pc = None
    /\ processed_articles \in Batches
    /\ article_index = 0
    /\ saved_count = 0
    /\ session_new = <<>> /\ tx_articles = <<>> /\ tx_sources = {}
    /\ db_articles \in {<<>>, <<2>>}
    /\ db_sources \in {{}, {"Reuters"}}
    /\ save_pc = "loop"
    /\ db_articles_at_call = db_articles

\* db.rollback(): what was added or inserted since the last commit is gone
Rollback ==
    /\ session_new' = <<>>
    /\ tx_articles' = <<>>
    /\ tx_sources' = {}
    /\ UNCHANGED <<db_articles, db_sources>>

\* one pass of the for loop: lines 126-167
SaveArticle ==
    /\ save_pc = "loop"
    /\ article_index < Len(processed_articles)
    /\ article_index' = article_index + 1
    /\ LET article_data == processed_articles[article_index + 1]
           \* _get_or_create_source: a source not found is added and flushed,
           \* and the flush inserts the pending articles with it
           source_found == article_data.source_name \in db_sources \cup tx_sources
           source_flush_raises ==
               ~source_found /\ flush_raises(db_articles, tx_articles, session_new)
           inserted == IF source_found THEN tx_articles ELSE tx_articles \o session_new
           pending == IF source_found THEN session_new ELSE <<>>
           sources == tx_sources \cup {article_data.source_name}
           \* the query for an existing article sees the rows inserted so far
           \* and, autoflush being off, none of the pending ones
           existing == article_data.url \in Elements(db_articles) \cup Elements(inserted)
           added == Append(pending, article_data.url)
           commits == (saved_count + 1) % commit_interval = 0
       IN  IF source_flush_raises
           THEN Rollback /\ UNCHANGED saved_count
           ELSE IF existing
           THEN /\ session_new' = pending
                /\ tx_articles' = inserted
                /\ tx_sources' = sources
                /\ UNCHANGED <<saved_count, db_articles, db_sources>>
           ELSE IF ~article_data.ok
           THEN Rollback /\ UNCHANGED saved_count
           ELSE /\ saved_count' = saved_count + 1
                /\ IF ~commits
                   THEN /\ session_new' = added
                        /\ tx_articles' = inserted
                        /\ tx_sources' = sources
                        /\ UNCHANGED <<db_articles, db_sources>>
                   ELSE IF flush_raises(db_articles, inserted, added)
                   THEN Rollback
                   ELSE /\ db_articles' = db_articles \o inserted \o added
                        /\ db_sources' = db_sources \cup sources
                        /\ session_new' = <<>>
                        /\ tx_articles' = <<>>
                        /\ tx_sources' = {}
    /\ UNCHANGED <<call, pc, scoreVars, clfVars, storeVars, analyzeVars, overallVars,
                   backfillVars, schedulerVars, processed_articles, save_pc, db_articles_at_call>>

\* the final commit, the rollback of the outer except when it raises, and
\* the return of saved_count: lines 169-178
FinalCommit ==
    /\ save_pc = "loop"
    /\ article_index = Len(processed_articles)
    /\ IF flush_raises(db_articles, tx_articles, session_new)
       THEN Rollback
       ELSE /\ db_articles' = db_articles \o tx_articles \o session_new
            /\ db_sources' = db_sources \cup tx_sources
            /\ session_new' = <<>>
            /\ tx_articles' = <<>>
            /\ tx_sources' = {}
    /\ save_pc' = "returned"
    /\ UNCHANGED <<call, pc, scoreVars, clfVars, storeVars, analyzeVars, overallVars,
                   backfillVars, schedulerVars, processed_articles, article_index, saved_count,
                   db_articles_at_call>>

NextSave == SaveArticle \/ FinalCommit

SpecSave == InitSave /\ [][NextSave]_vars

\* ------------------------------------------------------------------------
\* etl.scheduler.BackgroundScheduler: a caller and the loop threads it starts
\* ------------------------------------------------------------------------
\* the job names setup_jobs registers, in the order of lines 45-54
job_names == <<"news_fetch", "trend_calculation", "daily_cleanup", "health_check">>
\* setup_jobs(): schedule.every()...do(...) appends to schedule.jobs
setup_jobs(jobs) == jobs \o job_names
\* threading.Thread.is_alive()
is_alive(t) == thread_pc[t] # "exited"

\* most start() calls and most stop() calls of the caller
MaxStarts == 3
MaxStops == 2

\* __init__ (lines 24-26), with the module-level schedule empty
InitScheduler ==
    /\ ScoreIdle
    /\ ClfIdle
    /\ StoreIdle
    /\ AnalyzeIdle
    /\ OverallIdle
    /\ BackfillIdle
    /\ SaveIdle
    /\ call = None
    /\ pc = None
    /\ running = FALSE
    /\ thread = 0
    /\ schedule_jobs = <<>>
    /\ thread_pc = <<>>
    /\ last_call = "__init__"
    /\ stop_calls = 0

\* start(), lines 171-184: returns at once when running is set; otherwise
\* registers the jobs, creates the thread and starts it
Start ==
    /\ Len(thread_pc) < MaxStarts
    /\ IF running
       THEN UNCHANGED <<schedule_jobs, thread, thread_pc>>
       ELSE /\ schedule_jobs' = setup_jobs(schedule_jobs)
            /\ thread_pc' = Append(thread_pc, "started")
            /\ thread' = Len(thread_pc) + 1
    /\ last_call' = "start"
    /\ UNCHANGED <<call, pc, scoreVars, clfVars, storeVars, analyzeVars, overallVars,
                   backfillVars, saveVars, running, stop_calls>>

\* stop(), lines 186-198: returns at once when running is not set; otherwise
\* clears it and waits for the thread for at most 10 seconds
Stop ==
    /\ stop_calls < MaxStops
    /\ stop_calls' = stop_calls + 1
    /\ IF ~running THEN UNCHANGED running ELSE running' = FALSE
    /\ last_call' = "stop"
    /\ UNCHANGED <<call, pc, scoreVars, clfVars, storeVars, analyzeVars, overallVars,
                   backfillVars, saveVars, thread, schedule_jobs, thread_pc>>

\* run_scheduler of thread t, line 161: self.running = True
SetRunning(t) ==
    /\ thread_pc[t] = "started"
    /\ running' = TRUE
    /\ thread_pc' = [thread_pc EXCEPT ![t] = "while"]
    /\ UNCHANGED <<call, pc, scoreVars, clfVars, storeVars, analyzeVars, overallVars,
                   backfillVars, saveVars, thread, schedule_jobs, last_call, stop_calls>>

\* run_scheduler of thread t, line 163: the test of the while loop
TestRunning(t) ==
    /\ thread_pc[t] = "while"
    /\ thread_pc' = [thread_pc EXCEPT ![t] = IF running THEN "body" ELSE "exited"]
    /\ UNCHANGED <<call, pc, scoreVars, clfVars, storeVars, analyzeVars, overallVars,
                   backfillVars, saveVars, running, thread, schedule_jobs, last_call,
                   stop_calls>>

\* run_scheduler of thread t, lines 164-169: run_pending() and the sleep
RunPending(t) ==
    /\ thread_pc[t] = "body"
    /\ thread_pc' = [thread_pc EXCEPT ![t] = "while"]
    /\ UNCHANGED <<call, pc, scoreVars, clfVars, storeVars, analyzeVars, overallVars,
                   backfillVars, saveVars, running, thread, schedule_jobs, last_call,
                   stop_calls>>

LoopThread(t) == SetRunning(t) \/ TestRunning(t) \/ RunPending(t)

NextScheduler ==
    \/ Start
    \/ Stop
    \/ \E t \in 1..Len(thread_pc) : LoopThread(t)

SpecScheduler == InitScheduler /\ [][NextScheduler]_vars
\* every started thread keeps being scheduled; the caller may stop calling
SpecSchedulerThreads ==
    SpecScheduler /\ \A t \in 1..MaxStarts : WF_vars(t \in 1..Len(thread_pc) /\ LoopThread(t))

\* ------------------------------------------------------------------------
\* Properties of the trend scorer and the daily grouping (under SpecScore)
\* ------------------------------------------------------------------------
RECURSIVE SumOfIndices(_, _, _)
SumOfIndices(s, lo, hi) ==
    IF hi < lo THEN R(0) ELSE RAdd(s[hi + 1], SumOfIndices(s, lo, hi - 1))
\* the mean of s at the 0-based indices lo..hi, both inclusive
MeanOfIndices(s, lo, hi) == RDiv(SumOfIndices(s, lo, hi), R(hi - lo + 1))

Clamp01(x) == IF RLt(x, R(0)) THEN R(0) ELSE IF RGt(x, R(1)) THEN R(1) ELSE x

RECURSIVE SumIntsRange(_, _, _)
SumIntsRange(s, lo, hi) ==
    IF hi < lo THEN 0
    ELSE IF lo = hi THEN s[lo]
    ELSE LET mid == (lo + hi) \div 2
         IN  SumIntsRange(s, lo, mid) + SumIntsRange(s, mid + 1, hi)
SumInts(s) == SumIntsRange(s, 1, Len(s))

ScoredDays == Len(series_counts(daily_counts))

\* C1: every day of the series gets exactly one point; with fewer than 3
\* days, or at an index below 2, the point is 0.5/'stable'; at an index >= 2
\* the score is 0.5 when the older average is 0 and otherwise
\* clamp((recent - older)/older + 0.5, 0, 1); every score lies in [0, 1] and
\* the direction is 'rising' iff score > 0.6, 'falling' iff score < 0.4,
\* else 'stable'.
C1_TrendScoreDefaultsAndBounds ==
    pc = "done" =>
        /\ Len(trend_data) = ScoredDays
        /\ \A j \in 1..ScoredDays :
            LET p == trend_data[j].v
                i == j - 1
            IN  /\ trend_data[j].k = series_dates(daily_counts)[j]
                /\ (ScoredDays < 3 \/ i < 2) =>
                      (p.trend_score = <<1, 2>> /\ p.trend_direction = "stable")
                /\ (ScoredDays >= 3 /\ i >= 2) =>
                      p.trend_score =
                         IF avgs[j].older = R(0) THEN <<1, 2>>
                         ELSE Clamp01(RAdd(RDiv(RSub(avgs[j].recent, avgs[j].older),
                                                avgs[j].older), <<1, 2>>))
                /\ RLe(R(0), p.trend_score) /\ RLe(p.trend_score, R(1))
                /\ p.trend_direction \in {"rising", "falling", "stable"}
                /\ (p.trend_direction = "rising") <=> RGt(p.trend_score, <<3, 5>>)
                /\ (p.trend_direction = "falling") <=> RLt(p.trend_score, <<2, 5>>)

\* C1 witness: a scored series of >= 3 days with a point at index >= 2 whose
\* older average is 0 (score 0.5) and another whose score was clamped to 1
C1_Witness ==
    /\ pc = "done"
    /\ ScoredDays >= 3
    /\ \E j \in 3..ScoredDays :
          avgs[j].older = R(0) /\ trend_data[j].v.trend_score = <<1, 2>>
    /\ \E j \in 3..ScoredDays :
          /\ avgs[j].older # R(0)
          /\ RGt(RDiv(RSub(avgs[j].recent, avgs[j].older), avgs[j].older), <<1, 2>>)
          /\ trend_data[j].v.trend_score = R(1)

\* C6 (as amended): at every index i >= 2 of a series of >= 3 days, recent is
\* the mean of the smoothed values at indices max(0,i-2)..i inclusive and
\* older is the mean of the smoothed values at indices max(0,i-6) up to but
\* excluding max(1,i-3), i.e. through max(1,i-3)-1 inclusive.
C6_TrendWindowsHalfOpen ==
    (pc = "done" /\ ScoredDays >= 3) =>
        \A j \in 3..ScoredDays :
            LET i == j - 1
            IN  /\ avgs[j].recent = MeanOfIndices(smoothed_counts, Max(0, i - 2), i)
                /\ avgs[j].older =
                      MeanOfIndices(smoothed_counts, Max(0, i - 6), Max(1, i - 3) - 1)

\* C6 (as stated): older is the mean of the smoothed values at indices
\* max(0,i-6) through max(1,i-3) inclusive.
C6_TrendWindowsInclusive ==
    (pc = "done" /\ ScoredDays >= 3) =>
        \A j \in 3..ScoredDays :
            LET i == j - 1
            IN  /\ avgs[j].recent = MeanOfIndices(smoothed_counts, Max(0, i - 2), i)
                /\ avgs[j].older =
                      MeanOfIndices(smoothed_counts, Max(0, i - 6), Max(1, i - 3))

\* C6 witness: the last day of a scored 7-day series, whose older average is
\* the mean of the smoothed values of days 1 to 3 and not of days 1 to 4
C6_Witness ==
    /\ pc = "done"
    /\ ScoredDays = 7
    /\ avgs[7].recent = MeanOfIndices(smoothed_counts, 4, 6)
    /\ avgs[7].older = MeanOfIndices(smoothed_counts, 0, 2)
    /\ avgs[7].older # MeanOfIndices(smoothed_counts, 0, 3)

\* C7: for the daily counts [2,2,3,8,9,10,11] the smoothing is the centred
\* 3-point mean (window min(7, 7 div 3) = 2) and each of the last 3 days is
\* labelled 'rising' with trend_score > 0.6.
C7_RisingScenario ==
    (pc = "done" /\ series_counts(daily_counts) = RisingScenario) =>
        /\ Min(smoothing_window, Len(RisingScenario) \div 3) = 2
        /\ \A j \in 1..7 :
              smoothed_counts[j] =
                 RDiv(R(SumInts(SubSeq(RisingScenario, Max(1, j - 1), Min(7, j + 1)))),
                      R(Min(7, j + 1) - Max(1, j - 1) + 1))
        /\ \A j \in 5..7 :
              /\ trend_data[j].v.trend_direction = "rising"
              /\ RGt(trend_data[j].v.trend_score, <<3, 5>>)

\* C7 witness: the scenario series has been scored and its last day is rising
C7_Witness ==
    /\ pc = "done"
    /\ series_counts(daily_counts) = RisingScenario
    /\ trend_data[7].v.trend_direction = "rising"

\* C10: for a list of articles in any order, the series the scorer works on
\* has exactly one entry per distinct calendar day that has an article, in
\* ascending date order, no entry for a day without articles, and article
\* counts that sum to the number of articles in the list.
C10_DailyAggregation ==
    (call = "calculate_topic_country_trends" /\ pc = "done") =>
        LET days == {strftime(article_list[i].published_date) : i \in 1..Len(article_list)}
        IN  /\ Len(daily_counts) = Cardinality(days)
            /\ DictKeys(daily_counts) = days
            /\ \A d \in days :
                  Len(DictGet(daily_counts, d)) =
                     Cardinality({i \in 1..Len(article_list) :
                                     strftime(article_list[i].published_date) = d})
            /\ Len(trend_data) = Cardinality(days)
            /\ \A j \in 1..Len(trend_data) :
                  /\ trend_data[j].k \in days
                  /\ trend_data[j].v.article_count >= 1
                  /\ j > 1 => trend_data[j - 1].k < trend_data[j].k
            /\ SumInts([j \in 1..Len(trend_data) |-> trend_data[j].v.article_count])
                  = Len(article_list)

\* C10 witness: a list whose articles are not in date order, with two
\* articles on one day and a day without articles in between, has been
\* grouped and scored
C10_Witness ==
    /\ call = "calculate_topic_country_trends"
    /\ pc = "done"
    /\ Len(article_list) = 3
    /\ article_list[1].published_date > article_list[2].published_date
    /\ Len(trend_data) = 2
    /\ trend_data[2].k - trend_data[1].k >= 2
    /\ \E j \in 1..2 : trend_data[j].v.article_count = 2

\* ------------------------------------------------------------------------
\* Properties of the classifiers (under SpecClassify)
\* ------------------------------------------------------------------------
\* an analyze_text call that got past the short-text check has returned
AnalyzedLongText ==
    /\ call = "analyze_text"
    /\ pc = "done"
    /\ ~IsEmptyText(text)
    /\ StripLen(text) >= sa_min_length
\* the model ran on the text and gave a score and a confidence
ModelPredicted == analyzer = Loaded /\ prediction # PredictionFailed
\* (p.score*p.conf + s.score*s.conf) / (p.conf + s.conf)
WeightedMean(p, s) ==
    RDiv(RAdd(RMul(p.sentiment_score, p.confidence), RMul(s.sentiment_score, s.confidence)),
         RAdd(p.confidence, s.confidence))
InUnit(x) == RGe(x, R(0)) /\ RLe(x, R(1))

\* C2: whenever the model's confidence for a text is strictly between the
\* blend threshold 0.2 and the acceptance threshold 0.5, analyze_text returns
\* method 'blended' with the confidence-weighted mean of the model's score
\* and the rule-based score.
C2_BlendBelowAcceptance ==
    (AnalyzedLongText /\ ModelPredicted
        /\ RGt(prediction.confidence, sa_blend_threshold)
        /\ RLt(prediction.confidence, sa_confidence_threshold))
    => /\ result.method = "blended"
       /\ result.sentiment_score = WeightedMean(prediction, analyze_with_rules(text))
\* C2: the model gave score 0.8 with confidence 0.3 for a text of at least ten
\* characters, and analyze_text has answered with the rule-based result alone.
C2_Witness ==
    /\ AnalyzedLongText /\ ModelPredicted
    /\ prediction = [sentiment_score |-> <<4, 5>>, confidence |-> <<3, 10>>]
    /\ neural_result = NoneResult
    /\ result = analyze_with_rules(text)
    /\ result.method = "rule-based"

\* C3: whenever analyze_with_model produces a result with confidence >= 0.5,
\* the threshold itself included, analyze_text returns that result unchanged
\* with method 'neural'; and a result returned as 'neural' never has a
\* confidence below the threshold.
C3_AcceptAtOrAboveThreshold ==
    /\ (AnalyzedLongText /\ neural_result # NoneResult
            /\ RGe(neural_result.confidence, sa_confidence_threshold))
       => (result = neural_result /\ result.method = "neural")
    /\ (call = "analyze_text" /\ pc = "done" /\ result.method = "neural")
       => RGe(result.confidence, sa_confidence_threshold)
\* C3: analyze_with_model kept a result whose confidence is exactly 0.5 and
\* analyze_text has returned a blend instead of it.
C3_Witness ==
    /\ AnalyzedLongText
    /\ neural_result # NoneResult
    /\ neural_result.confidence = sa_confidence_threshold
    /\ result.method = "blended"
    /\ result # neural_result

\* a sentiment result has a score in [-1, 1], a confidence in [0, 1] and one
\* of the three labels
ValidSentimentResult(r) ==
    /\ RGe(r.sentiment_score, R(-1)) /\ RLe(r.sentiment_score, R(1))
    /\ InUnit(r.confidence)
    /\ r.sentiment_label \in {"positive", "negative", "neutral"}
\* a topic result names one of the ten topics, with a confidence in [0, 1]
\* and at most two secondary topics out of the ten
ValidTopicResult(r) ==
    /\ \E t \in 1..Len(topic_names) : r.primary_topic = topic_names[t]
    /\ InUnit(r.confidence)
    /\ Len(r.secondary_topics) <= 2
    /\ \A i \in 1..Len(r.secondary_topics) :
          \E t \in 1..Len(topic_names) : r.secondary_topics[i] = topic_names[t]

\* C4: with the model and tokenizer absent, analyze_text and classify_text
\* return, for every text (empty and short ones included), a well-formed
\* result whose method is 'rule-based'.
C4_PrimaryAbsentRuleBased ==
    (pc = "done" /\ analyzer = Absent /\ call \in {"analyze_text", "classify_text"})
    => /\ result.method = "rule-based"
       /\ neural_result \in {NoneResult, NotInvoked}
       /\ call = "analyze_text" => ValidSentimentResult(result)
       /\ call = "classify_text" => ValidTopicResult(result)
\* C4: analyze_text was called without a model on a text long enough to be
\* handed to it, and returned the rule-based result.
C4_Witness ==
    /\ AnalyzedLongText
    /\ analyzer = Absent
    /\ result = analyze_with_rules(text)

\* C13: every result analyze_text returns, whatever its method, is labelled
\* 'positive' iff its score is above 0.1, 'negative' iff its score is below
\* -0.1 and 'neutral' otherwise; and every blended result has confidence
\* min((primary.confidence + secondary.confidence) / 2, 1), which is in [0, 1].
C13_LabelAndConfidenceConsistent ==
    (call = "analyze_text" /\ pc = "done")
    => /\ result.sentiment_label = "positive" <=> RGt(result.sentiment_score, <<1, 10>>)
       /\ result.sentiment_label = "negative" <=> RLt(result.sentiment_score, <<-1, 10>>)
       /\ result.sentiment_label = "neutral"
             <=> (RGe(result.sentiment_score, <<-1, 10>>)
                    /\ RLe(result.sentiment_score, <<1, 10>>))
       /\ result.method \in {"neural", "rule-based", "blended"}
       /\ InUnit(result.confidence)
       /\ result.method = "blended"
             => result.confidence
                   = RMin(RDiv(RAdd(prediction.confidence,
                                    analyze_with_rules(text).confidence), R(2)), R(1))
\* C13: analyze_text has blended a positive model score with a negative
\* rule-based score of full confidence
C13_Witness ==
    /\ AnalyzedLongText
    /\ result.method = "blended"
    /\ RGt(prediction.sentiment_score, R(0))
    /\ RLt(analyze_with_rules(text).sentiment_score, R(0))
    /\ analyze_with_rules(text).confidence = R(1)
    /\ result.confidence = <<3, 4>>

\* C14: classify_text decides as analyze_text does: a text of fewer than 10
\* characters skips the model; a model result above the acceptance threshold
\* is returned with method 'neural'; one not accepted but above the lower
\* threshold gives method 'blended'; otherwise the rule-based result is
\* returned with method 'rule-based'.
C14_TopicSamePolicy ==
    (call = "classify_text" /\ pc = "done")
    => LET short == StripLen(text) < 10
           predicted == ~short /\ analyzer = Loaded /\ prediction # PredictionFailed
           accepted == predicted /\ RGt(prediction.top[1].p, tc_confidence_threshold)
           blendable == predicted /\ ~accepted
                           /\ RGt(prediction.top[1].p, tc_minimal_threshold)
       IN  /\ short => (neural_result = NotInvoked /\ result = classify_with_rules(text))
           /\ accepted => (result = neural_result /\ result.method = "neural")
           /\ blendable => result.method = "blended"
           /\ (~accepted /\ ~blendable)
                 => (result = classify_with_rules(text) /\ result.method = "rule-based")
\* C14: the three-character text 'war' went to a loaded model, whose answer
\* with probability 0.6 was returned with method 'neural'
C14_Witness ==
    /\ call = "classify_text" /\ pc = "done"
    /\ text = Text(0, <<"war">>)
    /\ analyzer = Loaded
    /\ prediction # PredictionFailed
    /\ prediction.top[1].p = <<3, 5>>
    /\ result = neural_result
    /\ result.method = "neural"

\* C15: for every text whose stripped length is below 10 characters,
\* analyze_text does not run the model and returns exactly what
\* analyze_with_rules returns for the text, with method 'rule-based'.
C15_ShortTextShortCircuit ==
    (call = "analyze_text" /\ pc = "done" /\ StripLen(text) < 10)
    => /\ neural_result = NotInvoked
       /\ result = analyze_with_rules(text)
       /\ result.method = "rule-based"
\* C15: a loaded analyzer whose model would answer with confidence 0.9 was
\* given the nine-character text 'great bad' and answered from the rules
C15_Witness ==
    /\ call = "analyze_text" /\ pc = "done"
    /\ text = Text(0, <<"great", "bad">>)
    /\ StripLen(text) = 9
    /\ analyzer = Loaded
    /\ prediction # PredictionFailed
    /\ prediction.confidence = <<9, 10>>
    /\ result.method = "rule-based"

\* the score, label and confidence of a sentiment result are those given
IsNeutralWith(r, confidence) ==
    /\ r.sentiment_score = R(0)
    /\ r.sentiment_label = "neutral"
    /\ r.confidence = confidence
\* the call under way was given the empty string (both strings, for an article)
EmptyInput ==
    IF call = "analyze_article"
    THEN IsEmptyText(text.title) /\ IsEmptyText(text.content)
    ELSE IsEmptyText(text)
\* classify_text returned the fixed default topic
DefaultTopicReturned ==
    /\ result.primary_topic = "Society & Culture"
    /\ result.confidence = <<1, 10>>
    /\ result.secondary_topics = <<>>

\* C16 as stated: for empty input analyze_text, analyze_with_rules and
\* analyze_article all return score 0, label 'neutral' and confidence 0.1,
\* and classify_text returns 'Society & Culture' with confidence 0.1 and no
\* secondary topics.
C16_EmptyInputDefaults ==
    (pc = "done" /\ EmptyInput)
    => /\ call \in {"analyze_text", "analyze_with_rules", "analyze_article"}
             => IsNeutralWith(result, <<1, 10>>)
       /\ call = "classify_text" => DefaultTopicReturned
\* C16: for empty input analyze_text and analyze_with_rules return score 0,
\* label 'neutral' and confidence 0.1 with method 'rule-based';
\* analyze_article with empty title and empty content returns score 0, label
\* 'neutral' and confidence 0.0 with method 'insufficient_data'; and
\* classify_text returns 'Society & Culture' with confidence 0.1 and no
\* secondary topics.
C16_EmptyInputDefaultsPerEntryPoint ==
    (pc = "done" /\ EmptyInput)
    => /\ call \in {"analyze_text", "analyze_with_rules"}
             => (IsNeutralWith(result, <<1, 10>>) /\ result.method = "rule-based")
       /\ call = "analyze_article"
             => (IsNeutralWith(result, R(0)) /\ result.method = "insufficient_data")
       /\ call = "classify_text" => DefaultTopicReturned
\* C16: analyze_article was called on a loaded analyzer with an empty title
\* and an empty content and has returned
C16_Witness ==
    /\ pc = "done"
    /\ call = "analyze_article"
    /\ EmptyInput
    /\ analyzer = Loaded
    /\ result.method = "insufficient_data"

\* the keyword counts of the text of a returned analyze_with_rules call
RulesReturned == pc = "done" /\ call = "analyze_with_rules" /\ ~IsEmptyText(text)
PositiveFound == CountMatches(text, positive_keywords)
NegativeFound == CountMatches(text, negative_keywords)
NegationsFound == CountMatches(text, negation_words)
OnlyPositiveAndFiller == PositiveFound > 0 /\ NegativeFound = 0 /\ NegationsFound = 0
\* with at most 2 negation words the score is positive iff there are more
\* positive than negative keywords; with more than 2 the counts are swapped
ScoredByCounts ==
    /\ NegationsFound <= 2
          => /\ result.details.positive_count = PositiveFound
             /\ result.details.negative_count = NegativeFound
             /\ RGt(result.sentiment_score, R(0)) <=> PositiveFound > NegativeFound
    /\ NegationsFound > 2
          => /\ result.details.positive_count = NegativeFound
             /\ result.details.negative_count = PositiveFound
             /\ RGt(result.sentiment_score, R(0)) <=> NegativeFound > PositiveFound

C5_IdempotentUpsert ==
    /\ [](\A i, j \in 1..Len(topic_trends) :
             func_date(topic_trends[i].date) = func_date(topic_trends[j].date) => i = j)
    /\ [][op'.rerun => topic_trends' = topic_trends]_vars
\* C5: a run has repeated the previous one over at least two stored dates,
\* one of them with a sentiment average
C5_Witness ==
    /\ op.name = "calculate_topic_country_trends"
    /\ op.rerun
    /\ op.returned >= 2
    /\ Len(topic_trends) >= 2
    /\ \E i \in 1..Len(topic_trends) : topic_trends[i].sentiment_avg # NoScore

\* ------------------------------------------------------------------------
\* Properties of the forecasts (under SpecForecast)
\* ------------------------------------------------------------------------
\* a step that is a call of generate_trend_predictions
GenerateStep ==
    /\ op'.name = "generate_trend_predictions"
    /\ <<op, topic_predictions>>' # <<op, topic_predictions>>

\* C8: a generate_trend_predictions call over fewer than 7 stored trend
\* points returns None and leaves topic_predictions as it is; a call over 7
\* or more appends exactly one row, the forecast it returns, and every row
\* stored before is still there, unchanged and in place.
C8_ForecastAppendOnly ==
    [][GenerateStep =>
          IF Len(topic_trends) < 7
          THEN /\ op'.returned = NoneResult
               /\ topic_predictions' = topic_predictions
          ELSE /\ op'.returned # NoneResult
               /\ Len(topic_predictions') = Len(topic_predictions) + 1
               /\ SubSeq(topic_predictions', 1, Len(topic_predictions)) = topic_predictions
               /\ LET new == topic_predictions'[Len(topic_predictions')]
                  IN  /\ new.prediction_date = op'.returned.prediction_date
                      /\ new.predicted_trend_score = op'.returned.predicted_score
                      /\ new.confidence = op'.returned.confidence]_vars
\* C8: a second forecast has been appended behind an earlier one, and the
\* latest call was refused over a history cut below seven points
C8_Witness ==
    /\ Len(topic_predictions) = 2
    /\ Len(topic_trends) = 6
    /\ op.name = "generate_trend_predictions"
    /\ op.returned = NoneResult

\* sums of the closed-form least-squares line through (0, y[1]), (1, y[2]), ...
SumX(y) == SumInts([i \in 1..Len(y) |-> i - 1])
SumXX(y) == SumInts([i \in 1..Len(y) |-> (i - 1) * (i - 1)])
SumY(y) == RSum(y)
SumXY(y) == RSum([i \in 1..Len(y) |-> RMul(R(i - 1), y[i])])
SumYY(y) == RSum([i \in 1..Len(y) |-> RMul(y[i], y[i])])
\* n*Sxy - Sx*Sy, n*Sxx - Sx*Sx, n*Syy - Sy*Sy
CovXY(y) == RSub(RMul(R(Len(y)), SumXY(y)), RMul(R(SumX(y)), SumY(y)))
VarX(y) == R(Len(y) * SumXX(y) - SumX(y) * SumX(y))
VarY(y) == RSub(RMul(R(Len(y)), SumYY(y)), RMul(SumY(y), SumY(y)))
\* the least-squares line evaluated at index x
Extrapolation(y, x) ==
    LET slope == RDiv(CovXY(y), VarX(y))
        intercept == RDiv(RSub(SumY(y), RMul(slope, R(SumX(y)))), R(Len(y)))
    IN  RAdd(RMul(slope, R(x)), intercept)
RSquared(y) ==
    IF VarY(y) = R(0) THEN R(0)
    ELSE RDiv(RMul(CovXY(y), CovXY(y)), RMul(VarX(y), VarY(y)))
\* the trend scores a forecast is computed from
StoredScores ==
    LET fitted == query_historical_trends(topic_trends)
    IN  [i \in 1..Len(fitted) |-> fitted[i].trend_score]

\* C9: a forecast returned over n stored scores for a horizon of h days has
\* predicted_score equal to the least-squares extrapolation at index n + h
\* bounded to [0, 1], and confidence max(0.1, r squared), which lies in
\* [0.1, 1]; the row persisted for it holds the same two values, and every
\* persisted row has its score in [0, 1] and its confidence in [0.1, 1].
C9_ForecastClamping ==
    /\ (op.name = "generate_trend_predictions" /\ op.returned # NoneResult)
       => LET raw == Extrapolation(StoredScores, Len(StoredScores) + op.days_ahead)
              last == topic_predictions[Len(topic_predictions)]
          IN  /\ op.returned.predicted_score = Clamp01(raw)
              /\ op.returned.confidence = RMax(<<1, 10>>, RSquared(StoredScores))
              /\ last.predicted_trend_score = op.returned.predicted_score
              /\ last.confidence = op.returned.confidence
    /\ \A i \in 1..Len(topic_predictions) :
          /\ InUnit(topic_predictions[i].predicted_trend_score)
          /\ RGe(topic_predictions[i].confidence, <<1, 10>>)
          /\ RLe(topic_predictions[i].confidence, R(1))
\* C9: forecasts bounded from above and from below have been returned: the
\* raw extrapolation of the latest one lies outside [0, 1]
C9_Witness ==
    /\ op.name = "generate_trend_predictions"
    /\ op.returned # NoneResult
    /\ LET raw == Extrapolation(StoredScores, Len(StoredScores) + op.days_ahead)
       IN  \/ RGt(raw, R(1)) /\ op.returned.predicted_score = R(1)
           \/ RLt(raw, R(0)) /\ op.returned.predicted_score = R(0)
    /\ RGt(op.returned.confidence, <<1, 10>>)

\* the slope of the least-squares line through the stored scores
FittedSlope == RDiv(CovXY(StoredScores), VarX(StoredScores))

\* C20: the direction of a regression forecast is 'stable' for every fitted
\* slope of absolute value below a small positive threshold (0.01 here),
\* 'rising' for slopes above that dead-zone and 'falling' for slopes below it.
C20_DirectionDeadZone ==
    (op.name = "generate_trend_predictions" /\ op.returned # NoneResult)
    => /\ (RLt(FittedSlope, <<1, 100>>) /\ RGt(FittedSlope, <<-1, 100>>))
             => op.returned.trend_direction = "stable"
       /\ RGe(FittedSlope, <<1, 100>>) => op.returned.trend_direction = "rising"
       /\ RLe(FittedSlope, <<-1, 100>>) => op.returned.trend_direction = "falling"
\* C20: over six scores of 0.5 followed by 4/7 the fitted slope is 3/392,
\* below 0.01, and the forecast returned says 'rising'
C20_Witness ==
    /\ op.name = "generate_trend_predictions"
    /\ op.returned # NoneResult
    /\ StoredScores = NearlyFlat
    /\ FittedSlope = <<3, 392>>
    /\ op.returned.trend_direction = "rising"

\* the stored trend rows by ascending date, and the most recent 30 of them
RowsByDate == order_by_date(topic_trends)
MostRecentRows ==
    SubSeq(RowsByDate, Max(1, Len(RowsByDate) - 29), Len(RowsByDate))
MostRecentScores == [i \in 1..Len(MostRecentRows) |-> MostRecentRows[i].trend_score]

\* C27: a forecast is fitted on the most recent 30 stored trend points in
\* ascending date order (on all of them when there are at most 30), and its
\* prediction date is days_ahead days after the most recent stored trend date.
C27_ForecastOverMostRecent ==
    (op.name = "generate_trend_predictions" /\ op.returned # NoneResult)
    => LET n == Len(MostRecentScores)
           slope == RDiv(CovXY(MostRecentScores), VarX(MostRecentScores))
       IN  /\ op.returned.prediction_date
                 = MostRecentRows[n].date + op.days_ahead * TicksPerDay
           /\ op.returned.current_score = MostRecentScores[n]
           /\ op.returned.predicted_score
                 = Clamp01(Extrapolation(MostRecentScores, n + op.days_ahead))
           /\ op.returned.trend_direction
                 = IF RGt(slope, R(0)) THEN "rising"
                   ELSE IF RLt(slope, R(0)) THEN "falling" ELSE "stable"
\* C27: a forecast over more than 30 stored days was fitted on the oldest 30:
\* it is dated from the 30th day and reports the flat score 0.5 as current
C27_Witness ==
    /\ op.name = "generate_trend_predictions"
    /\ op.returned # NoneResult
    /\ Len(topic_trends) = 32
    /\ op.returned.prediction_date = RowsByDate[30].date + op.days_ahead * TicksPerDay
    /\ op.returned.current_score = <<1, 2>>
    /\ op.returned.trend_direction = "stable"
    /\ MostRecentScores[30] = R(1)

\* C21: whatever mix of finite, absent and non-finite sentiment scores the
\* articles hold, no daily average sentiment is non-finite: every
\* sentiment_avg stored in a TopicTrend row is absent or a finite number.
C21_NoNonFiniteAverage ==
    \A i \in 1..Len(topic_trends) :
        topic_trends[i].sentiment_avg # NoScore
            => math_isfinite(topic_trends[i].sentiment_avg)
\* C21: a run over a day with one finite and one non-finite sentiment score
\* has stored that day's row with a non-finite sentiment_avg
C21_Witness ==
    /\ op.name = "calculate_topic_country_trends"
    /\ \E a \in 1..Len(articles) : articles[a].sentiment_score \in NonFiniteScores
    /\ \E a \in 1..Len(articles) : articles[a].sentiment_score = <<1, 2>>
    /\ \E i \in 1..Len(topic_trends) :
          /\ topic_trends[i].article_count >= 2
          /\ topic_trends[i].sentiment_avg \in NonFiniteScores

\* ------------------------------------------------------------------------
\* Properties of the aggregate report (under SpecOverall)
\* ------------------------------------------------------------------------
OverallReturned == overall_analysis # NotInvoked /\ topic_results # <<>>
\* the volume trend and the article total of the i-th topic result
VolumeTrendOf(i) ==
    LET vt == topic_results[i].v.volume_trend
    IN  IF "float" \in DOMAIN vt THEN vt.float ELSE vt.volume_trend
RAbs(x) == <<Abs(x[1]), x[2]>>
TotalOf(i) == topic_results[i].v.summary.total_articles
\* the position of a topic in the insertion order of topic_results
IndexOfTopic(t) == CHOOSE i \in 1..Len(topic_results) : topic_results[i].k = t
\* a ranking lists min(5, number of topics) distinct topics of topic_results
IsTopFive(ranking) ==
    /\ Len(ranking) = Min(5, Len(topic_results))
    /\ \A j \in 1..Len(ranking) :
          \E i \in 1..Len(topic_results) : topic_results[i].k = ranking[j].topic
    /\ \A j, l \in 1..Len(ranking) : ranking[j].topic = ranking[l].topic => j = l
Listed(ranking) == {IndexOfTopic(ranking[j].topic) : j \in 1..Len(ranking)}

\* C22: for a non-empty set of per-topic results the report lists as most
\* trending the top 5 topics by the absolute value of their volume trend: each
\* entry carries its topic's volume trend, the magnitudes are non-increasing
\* down the list, and no omitted topic has a larger magnitude than a listed
\* one.
C22_MostTrendingByMagnitude ==
    OverallReturned
    => /\ "most_trending_topics" \in DOMAIN overall_analysis
       /\ LET ranking == overall_analysis.most_trending_topics
          IN  /\ IsTopFive(ranking)
              /\ \A j \in 1..Len(ranking) :
                    ranking[j].trend = VolumeTrendOf(IndexOfTopic(ranking[j].topic))
              /\ \A j \in 1..(Len(ranking) - 1) :
                    RGe(RAbs(ranking[j].trend), RAbs(ranking[j + 1].trend))
              /\ \A i \in 1..Len(topic_results) : \A l \in Listed(ranking) :
                    i \notin Listed(ranking)
                        => RLe(RAbs(VolumeTrendOf(i)), RAbs(VolumeTrendOf(l)))
\* C22: over results whose volume trend is a dict, the report ranks a topic
\* with volume trend 0.25 first and one with volume trend -0.75 last
C22_Witness ==
    /\ OverallReturned
    /\ "most_trending_topics" \in DOMAIN overall_analysis
    /\ LET ranking == overall_analysis.most_trending_topics
       IN  /\ Len(ranking) >= 2
           /\ ranking[1].trend = <<1, 4>>
           /\ ranking[Len(ranking)].trend = <<-3, 4>>

\* C23: for a non-empty set of per-topic results, most_active_topics has
\* min(5, number of topics) entries in non-increasing order of total article
\* count, no omitted topic has more articles than a listed one, topics of
\* equal count keep the insertion order of the results,
\* total_articles_analyzed is the sum of the per-topic totals, and the
\* positive, neutral and negative topic counts sum to the number of topics.
C23_MostActiveAndTotals ==
    OverallReturned
    => /\ {"most_active_topics", "total_articles_analyzed", "sentiment_distribution"}
             \subseteq DOMAIN overall_analysis
       /\ LET ranking == overall_analysis.most_active_topics
              dist == overall_analysis.sentiment_distribution
          IN  /\ IsTopFive(ranking)
              /\ \A j \in 1..Len(ranking) :
                    ranking[j].articles = TotalOf(IndexOfTopic(ranking[j].topic))
              /\ \A j \in 1..(Len(ranking) - 1) :
                    /\ ranking[j].articles >= ranking[j + 1].articles
                    /\ ranking[j].articles = ranking[j + 1].articles
                          => IndexOfTopic(ranking[j].topic)
                                < IndexOfTopic(ranking[j + 1].topic)
              /\ \A i \in 1..Len(topic_results) : \A l \in Listed(ranking) :
                    i \notin Listed(ranking) => TotalOf(i) <= TotalOf(l)
              /\ overall_analysis.total_articles_analyzed
                    = SumInts([i \in 1..Len(topic_results) |-> TotalOf(i)])
              /\ dist.positive_topics + dist.neutral_topics + dist.negative_topics
                    = Len(topic_results)
\* C23: the report over six results as _analyze_single_topic_trend builds
\* them, volume trend a float, is the empty dict
C23_Witness ==
    /\ OverallReturned
    /\ Len(topic_results) = 6
    /\ \A i \in 1..Len(topic_results) : "float" \in DOMAIN topic_results[i].v.volume_trend
    /\ overall_analysis = EmptyDict

\* ------------------------------------------------------------------------
\* Properties of the sentiment back-fill (under SpecBackfillRun)
\* ------------------------------------------------------------------------
BackfillReturned == backfill_pc = "returned"
\* C26: process_articles_sentiment without a limit returns, and when it has
\* returned every article that had no sentiment_score at the start has one,
\* for every table and every batch_size >= 1.
C26_BackfillCompletes ==
    /\ <>BackfillReturned
    /\ [](BackfillReturned
            => \A i \in unscored_at_start : articles[i].sentiment_score # NoScore)
\* C26: the call has returned after two batches of one article, leaving one
\* of the three articles that were unscored at the start without a score
C26_Witness ==
    /\ BackfillReturned
    /\ batch_size = 1
    /\ Cardinality(unscored_at_start) = 3
    /\ processed_count + failed_count = 2
    /\ Cardinality({i \in unscored_at_start : articles[i].sentiment_score = NoScore}) = 1

\* ------------------------------------------------------------------------
\* Properties of the article store (under SpecSave)
\* ------------------------------------------------------------------------
\* the article rows persisted by the call
PersistedByCall == Len(db_articles) - Len(db_articles_at_call)
\* C28: when _save_articles_to_db returns, the number it returns is the
\* number of articles of the batch that are persisted, whatever articles
\* failed and were rolled back; and no two persisted articles share a URL.
C28_SavedCountTruthful ==
    /\ save_pc = "returned" => saved_count = PersistedByCall
    /\ \A i, j \in 1..Len(db_articles) : db_articles[i] = db_articles[j] => i = j
\* C28: the call has returned 1 for a batch of two whose second article
\* raised after the first was added, and no article of the batch is persisted
C28_Witness ==
    /\ save_pc = "returned"
    /\ Len(processed_articles) = 2
    /\ processed_articles[1].ok /\ ~processed_articles[2].ok
    /\ saved_count = 1
    /\ PersistedByCall = 0

\* ------------------------------------------------------------------------
\* Properties of the scheduler (under SpecScheduler and SpecSchedulerThreads)
\* ------------------------------------------------------------------------
AliveThreads == {t \in 1..Len(thread_pc) : is_alive(t)}
TimesRegistered(name) ==
    Cardinality({i \in 1..Len(schedule_jobs) : schedule_jobs[i] = name})

\* C29: whatever start() and stop() calls are made and however they
\* interleave with the loop threads, at most one loop thread is alive, and
\* once start() has been called each of the four jobs is registered exactly
\* once.
C29_StartIdempotent ==
    /\ Cardinality(AliveThreads) <= 1
    /\ thread # 0 => \A i \in 1..Len(job_names) : TimesRegistered(job_names[i]) = 1
\* C29: after two start() calls and no stop() two loop threads are alive and
\* every job is registered twice
C29_Witness ==
    /\ stop_calls = 0
    /\ Cardinality(AliveThreads) = 2
    /\ \A i \in 1..Len(job_names) : TimesRegistered(job_names[i]) = 2

\* C30: once a stop() call made after a start() has returned, and unless
\* start() is called again, running eventually is false with no loop thread
\* left alive, and from then on stays so until the next start().
C30_StopTakesEffect ==
    /\ (last_call = "stop" /\ thread # 0)
          ~> (last_call = "start" \/ (~running /\ AliveThreads = {}))
    /\ [][(/\ last_call = "stop" /\ last_call' = "stop"
            /\ ~running /\ AliveThreads = {})
              => (~running' /\ AliveThreads' = {})]_vars
\* C30: stop() has returned after start(), and the one loop thread is inside
\* its loop with running set
C30_Witness ==
    /\ last_call = "stop"
    /\ Len(thread_pc) = 1
    /\ thread_pc[1] = "body"
    /\ running

\* clamp(0.7 * min(article_count / 10, 1) + 0.3 * trend_score, 0, 1)
EngagementOf(row) ==
    Clamp01(RAdd(RMul(<<7, 10>>, RMin(Rat(row.article_count, 10), R(1))),
                 RMul(<<3, 10>>, row.trend_score)))

\* C25: after any sequence of runs and article arrivals, every stored
\* TopicTrend row has engagement_score = clamp(0.7 * min(article_count / 10, 1)
\* + 0.3 * trend_score, 0, 1) for the article_count and trend_score it holds.
C25_EngagementConsistent ==
    \A i \in 1..Len(topic_trends) :
        topic_trends[i].engagement_score = EngagementOf(topic_trends[i])
\* C25: a run has updated the row of a day that gained an article since the
\* row was created, and the row still holds the engagement of its first count
C25_Witness ==
    /\ op.name = "calculate_topic_country_trends"
    /\ op.arrivals = 1
    /\ \E i \in 1..Len(topic_trends) :
          /\ topic_trends[i].article_count = 2
          /\ topic_trends[i].engagement_score
                = EngagementOf([topic_trends[i] EXCEPT !.article_count = 1])
          /\ topic_trends[i].engagement_score # EngagementOf(topic_trends[i])

\* ------------------------------------------------------------------------
\* Properties of the topic analysis (under SpecAnalyze)
\* ------------------------------------------------------------------------
\* the scores of the articles of a calendar day that carry one
ScoresOfDay(rows, day) ==
    LET scored == SelectSeq(rows, LAMBDA a : /\ strftime(a.published_date) = day
                                            /\ a.sentiment_score # NoScore)
    IN  [i \in 1..Len(scored) |-> scored[i].sentiment_score]
\* sum of a series divided by its length
MeanOf(series) == RDiv(RSum(series), R(Len(series)))
\* what an article adds to the analyzer's average of its day: its score, or
\* the score analyze_article gives its title and content
ContributionOf(a) ==
    IF a.sentiment_score # NoScore THEN a.sentiment_score
    ELSE analyze_article(analyzer.sentiment_analyzer, a.title, a.content,
                         prediction.sentiment).sentiment_score
CalculatorRan == call = "calculate_topic_country_trends" /\ pc = "done"
AnalysisReturned ==
    call = "_analyze_single_topic_trend" /\ pc = "done" /\ result # NoneResult

\* C11 as stated: the average sentiment of a day, as TrendCalculator stores
\* it and as TrendAnalyzer produces it, is the mean over the articles of the
\* day that carry a score, and 0.0 for a day on which none does.
C11_AverageOfScoredOrZero ==
    /\ CalculatorRan
       => \A i \in 1..Len(topic_trends) :
             LET scores == ScoresOfDay(articles, func_date(topic_trends[i].date))
             IN  topic_trends[i].sentiment_avg
                    = IF scores = <<>> THEN R(0) ELSE MeanOf(scores)
    /\ AnalysisReturned
       => \A i \in 1..Len(daily_metrics) :
             LET scores == ScoresOfDay(articles, daily_metrics[i].date)
             IN  daily_metrics[i].avg_sentiment
                    = IF scores = <<>> THEN R(0) ELSE MeanOf(scores)
\* C11: the sentiment_avg TrendCalculator stores for a day is the mean over
\* the articles of the day that carry a score, and None for a day on which
\* none does; the avg_sentiment TrendAnalyzer produces for a day is the mean
\* over all articles of the day, an article without a score counting with
\* the score analyze_article gives its title and content.
C11_AverageStoredOrAnalyzed ==
    /\ CalculatorRan
       => \A i \in 1..Len(topic_trends) :
             LET scores == ScoresOfDay(articles, func_date(topic_trends[i].date))
             IN  topic_trends[i].sentiment_avg
                    = IF scores = <<>> THEN NoScore ELSE MeanOf(scores)
    /\ AnalysisReturned
       => \A i \in 1..Len(daily_metrics) :
             LET day_articles == DictGet(date_articles, daily_metrics[i].date)
             IN  daily_metrics[i].avg_sentiment
                    = MeanOf([j \in 1..Len(day_articles) |->
                                 ContributionOf(day_articles[j])])
\* C11: the calculator has stored three days: one with a scored article, one
\* with a scored and an unscored article, and one with an unscored article only
C11_Witness ==
    /\ CalculatorRan
    /\ Len(topic_trends) = 3
    /\ topic_trends[1].sentiment_avg = <<1, 2>>
    /\ topic_trends[2].article_count = 2
    /\ topic_trends[2].sentiment_avg = <<1, 2>>
    /\ topic_trends[3].article_count = 1
    /\ topic_trends[3].sentiment_avg = NoScore

\* the sentiment trend a call has returned, and the series it was computed from
ReturnedSentimentTrend ==
    IF call = "_calculate_sentiment_trend" THEN result ELSE result.sentiment_trend
SentimentTrendReturned ==
    \/ call = "_calculate_sentiment_trend" /\ pc = "done"
    \/ AnalysisReturned
\* the mean of the last k values of a series, and of all but its last k
MeanOfLast(series, k) == MeanOf(SubSeq(series, Len(series) - k + 1, Len(series)))
MeanBeforeLast(series, k) == MeanOf(SubSeq(series, 1, Len(series) - k))
\* a returned trend has the given change, and the direction that goes with it
HasChange(trend, change) ==
    /\ trend.change = change
    /\ trend.direction = "improving" <=> RGt(change, <<1, 20>>)
    /\ trend.direction = "deteriorating" <=> RLt(change, <<-1, 20>>)
    /\ trend.direction = "stable" <=> (RGe(change, <<-1, 20>>) /\ RLe(change, <<1, 20>>))
InsufficientData(trend) ==
    trend.direction = "insufficient_data" /\ trend.change = R(0)

\* C12 as stated: for n >= 2 values, recent is the mean of the last min(3, n),
\* earlier the mean of the values before them (the earliest value when
\* n < 4), change = recent - earlier, and the direction is 'improving' iff
\* change > 0.05, 'deteriorating' iff change < -0.05, else 'stable'; for
\* n < 2 the direction is 'insufficient_data' and the change 0.
C12_SentimentChangeMeanOfLast ==
    SentimentTrendReturned
    => LET n == Len(sentiment_scores)
           recent == MeanOfLast(sentiment_scores, Min(3, n))
           earlier == IF n < 4 THEN sentiment_scores[1]
                      ELSE MeanBeforeLast(sentiment_scores, 3)
       IN  IF n < 2 THEN InsufficientData(ReturnedSentimentTrend)
           ELSE HasChange(ReturnedSentimentTrend, RSub(recent, earlier))
\* C12: for n >= 3 values, recent is the mean of the last 3, and for n = 2
\* recent is the last value alone; earlier is the mean of the values before
\* the last 3 (the earliest value when n < 4), change = recent - earlier, and
\* the direction is 'improving' iff change > 0.05, 'deteriorating' iff
\* change < -0.05, else 'stable'; for n < 2 the direction is
\* 'insufficient_data' and the change 0.
C12_SentimentChangeLastOfTwo ==
    SentimentTrendReturned
    => LET n == Len(sentiment_scores)
           recent == IF n = 2 THEN sentiment_scores[2]
                     ELSE MeanOfLast(sentiment_scores, 3)
           earlier == IF n < 4 THEN sentiment_scores[1]
                      ELSE MeanBeforeLast(sentiment_scores, 3)
       IN  IF n < 2 THEN InsufficientData(ReturnedSentimentTrend)
           ELSE HasChange(ReturnedSentimentTrend, RSub(recent, earlier))
\* C12: for the two values 0.0 and 0.1 the change returned is 0.1 and the
\* direction 'improving'
C12_Witness ==
    /\ call = "_calculate_sentiment_trend" /\ pc = "done"
    /\ sentiment_scores = <<R(0), <<1, 10>>>>
    /\ result.change = <<1, 10>>
    /\ result.direction = "improving"

\* _predict_trend_with_model was called on a built LSTM whose predict succeeds
ModelCouldPredict ==
    /\ call = "_predict_trend_with_model" /\ pc = "done"
    /\ analyzer.trend_model
    /\ prediction.trend # PredictionFailed

\* C17: with the sequence model available and 1 to 6 days of daily metrics,
\* _predict_trend_with_model returns a prediction, made from a window of 7
\* rows: the row of the earliest day repeated in front of the rows of the
\* real days.
C17_ShortHistoryPadded ==
    (ModelCouldPredict /\ Len(daily_metrics) \in 1..6)
    => /\ result # NoneResult
       /\ Len(features) = 7
       /\ \A i \in 1..7 :
             features[i]
                = feature_vector(daily_metrics[Max(1, i - (7 - Len(daily_metrics)))])
\* C17: the model was available for three days of metrics, no window was
\* built and no prediction returned
C17_Witness ==
    /\ ModelCouldPredict
    /\ Len(daily_metrics) = 3
    /\ prediction.trend = [value |-> <<1, 2>>]
    /\ features = <<>>
    /\ result = NoneResult

\* C18: an analysis over at least 7 days (the history the regression
\* forecaster asks for) made without a sequence model still carries a
\* prediction.
C18_PredictionWithoutSequenceModel ==
    (AnalysisReturned /\ ~analyzer.trend_model /\ Len(daily_metrics) >= 7)
    => result.prediction # NoneResult
\* C18: an analysis of seven days made without a sequence model has returned
\* its sentiment trend and no prediction
C18_Witness ==
    /\ AnalysisReturned
    /\ ~analyzer.trend_model
    /\ Len(daily_metrics) = 7
    /\ result.sentiment_trend.direction = "stable"
    /\ result.prediction = NoneResult

\* the field names of what the regression forecaster returns
RegressionFields ==
    DOMAIN generate_trend_predictions(TrendRows(LinearRamp), <<>>,
                                      default_days_ahead).returned
ForecastReturned ==
    /\ call \in {"generate_trend_predictions", "_predict_trend_with_model"}
    /\ pc = "done"
    /\ result # NoneResult

\* C19: what generate_trend_predictions and _predict_trend_with_model return
\* has the same field names, with a predicted_score in [0, 1], a confidence
\* in [0, 1] and a direction among rising, falling and stable.
C19_SameForecastShape ==
    ForecastReturned
    => /\ DOMAIN result = RegressionFields
       /\ "predicted_score" \in DOMAIN result /\ InUnit(result.predicted_score)
       /\ "confidence" \in DOMAIN result /\ InUnit(result.confidence)
       /\ "trend_direction" \in DOMAIN result
       /\ result.trend_direction \in {"rising", "falling", "stable"}
\* C19: the sequence model has returned predicted_direction 'increasing' and
\* predicted_change 0.5 in a result without a predicted_score
C19_Witness ==
    /\ ModelCouldPredict
    /\ result # NoneResult
    /\ "predicted_score" \notin DOMAIN result
    /\ result.predicted_direction = "increasing"
    /\ result.predicted_change = <<1, 2>>
    /\ result.method = "tensorflow_lstm"

====
